---- MODULE Spec2Model ----
(***************************************************************************)
(* Verification model of the volatility-hedged theta engine:               *)
(* the scheduled phase callbacks (P0 exits, P1 entries, P2 rebalance),     *)
(* the position ledger maintained by OnOrderEvent, the delta aggregation   *)
(* and hedge sizing of DeltaHedger, the margin-capacity gate and the       *)
(* Greeks resolver.                                                        *)
(*                                                                         *)
(* Units: money in whole dollars, deltas in hundredths (-20 is -0.20),     *)
(* percentages in thousandths where the code multiplies two fractions.     *)
(* A point in time is day * 1440 + minute of day; day 1 is a Monday.  The   *)
(* run starts on a Friday, as the configured backtest does (its first      *)
(* trading day is Friday 2 January 2015), so the trading days explored     *)
(* span a weekend.                                                         *)
(***************************************************************************)
EXTENDS Integers, Sequences, FiniteSets, TLC

\* ------------------------------------------------------------------------
\* Bounds of the exploration
\* ------------------------------------------------------------------------
MaxDay == 8

MaxOrders == 3

MaxWarmupDay == 5

\* ------------------------------------------------------------------------
\* Configuration (config.py) and values fixed in the code
\* ------------------------------------------------------------------------
PHASE_SPLIT_ENABLED == TRUE

PHASE_0_TIME == 945

PHASE_1_TIME == 950

PHASE_2_TIME == 955

POSITION_CLEANUP_DAYS == 7

VERY_OLD_DAYS == 30

WEEKLY_CLEANUP_DAYS == 7

NONTRADABLE_RETRY_LIMIT == 3

\* config.py QUOTE_RETRY_LIMIT; SPREAD_RETRY_LIMIT has the same value.
QUOTE_RETRY_LIMIT == 1

MIN_BUYING_POWER == 5000

\* Fractions of config.py, in percent.
TARGET_MARGIN_USE == 85

MARGIN_BUFFER == 3

MAX_MARGIN_PER_TRADE_PCT == 15

ESTIMATED_MARGIN_PCT == 15

PRE_ORDER_MARGIN_SAFETY == 80

MARGIN_ESTIMATE_1_UNDERLYING_PCT == 20

MARGIN_ESTIMATE_2_UNDERLYING_PCT == 10

MARGIN_MINIMUM_FLOOR == 500

MAX_CONTRACTS_PER_100K == 10

MAX_POSITIONS == 15

\* Defaults the hedger reads with getattr; the algorithm never sets these
\* attributes, so the defaults are what runs (percent).
overnight_margin_max == 95

p2_option_reduction_max_pct == 20

p2_underlying_hedge_enabled == TRUE

p2_option_reduction_enabled == TRUE

\* config.py, overnight margin management: the values the configuration
\* gives for the ceiling, the reduction flag and the reduction bound (percent).
OVERNIGHT_MARGIN_MAX == 98

P2_OPTION_REDUCTION_ENABLED == FALSE

P2_OPTION_REDUCTION_MAX_PCT == 10

\* Hysteresis of the NAV band, percent of the tolerance.
NAV_HYSTERESIS_PCT == 5

\* Margin the hedger assumes for shorting shares, percent of the cost.
SHORT_MARGIN_PCT == 50

\* The shipped delta-band configuration (fractions in thousandths; the
\* trade_* fields are the equity band, the trade_*_future fields the band
\* for futures), a TRADE-mode configuration with a live per-trade band for
\* equities, and the shipped configuration with a live band for futures
\* only.
ShippedConfig ==
    [delta_band_mode |-> "NAV", delta_revert_mode |-> "BAND",
     nav_target |-> 120, nav_tol |-> 180, trade_target |-> 0, trade_tol |-> 1000,
     trade_target_future |-> 0, trade_tol_future |-> 1000]

TradeConfig ==
    [delta_band_mode |-> "TRADE", delta_revert_mode |-> "BAND",
     nav_target |-> 120, nav_tol |-> 180, trade_target |-> 0, trade_tol |-> 300,
     trade_target_future |-> 0, trade_tol_future |-> 1000]

FutureTradeConfig ==
    [ShippedConfig EXCEPT !.trade_tol_future = 40]

\* config.py: the intraday risk monitor; thresholds in percent, times in
\* minutes.
INTRADAY_RISK_MONITORING_ENABLED == TRUE

RISK_CHECK_INTERVAL_MINUTES == 15

EMERGENCY_EXIT_THRESHOLD == 40

RISK_REDUCTION_ENABLED == TRUE

RISK_REDUCTION_THRESHOLD == 95

RISK_REDUCTION_TARGET == 90

RISK_REDUCTION_COOLDOWN_MINUTES == 60

underlying_symbol == "QQQ"

\* The contracts of the chain: o1 is the one the strategy selects in the
\* runs from the start of the algorithm, o2 a second one a strategy may
\* select next to it.
OptionSymbols == {"o1", "o2"}

\* ------------------------------------------------------------------------
\* Generic helpers
\* ------------------------------------------------------------------------
Abs(x) == IF x < 0 THEN -x ELSE x

MinOf(S) == CHOOSE x \in S : \A y \in S : x <= y

MaxOf(S) == CHOOSE x \in S : \A y \in S : x >= y

RemoveAt(seq, i) == SubSeq(seq, 1, i - 1) \o SubSeq(seq, i + 1, Len(seq))

\* Keep the elements of seq at the indices in Keep, in order.
RECURSIVE FilterIdx(_, _, _)
FilterIdx(seq, Keep, i) ==
    IF i > Len(seq) THEN <<>>
    ELSE (IF i \in Keep THEN <<seq[i]>> ELSE <<>>) \o FilterIdx(seq, Keep, i + 1)

\* Python dict item assignment on the insertion-ordered ledger: an existing
\* key keeps its place and gets the new value, a new key goes to the end.
DictPut(pos, e) ==
    IF \E i \in DOMAIN pos : pos[i].id = e.id
    THEN [i \in DOMAIN pos |-> IF pos[i].id = e.id THEN e ELSE pos[i]]
    ELSE Append(pos, e)

IsEquity(sym) == sym = underlying_symbol

IsOption(sym) == sym \in OptionSymbols

\* ------------------------------------------------------------------------
\* State
\* ------------------------------------------------------------------------
VARIABLES
    day,                \* calendar day, 1 = Monday
    minute,             \* minute of day of the current scheduler instant
    fired,              \* the callback due at this instant has run
    IsWarmingUp,        \* LEAN warm-up flag
    warmAtOpen,         \* history: IsWarmingUp when the day began
    positions,          \* the ledger, in dict insertion order
    openOrders,         \* orders submitted and not yet filled or cancelled
    nextOrderId,        \* next order id handed out by the broker
    holdings,           \* Portfolio quantity per symbol
    todays_new_trades,  \* intents executed in today's Phase 1
    cfg,                \* delta-band configuration read at construction
    phaseLog,           \* history: <<phase, minute>> of the phases run today
    cbPhases,           \* history: phases run by the latest callback
    cb,                 \* history: what the latest callback read and did
    lastFill,           \* history: the order event delivered since the last callback
    risk_monitor,       \* IntradayRiskMonitor: last check, start value, last reduction
    afterPhase2,        \* history: a Phase 2 has run and no Phase 0 has started since
    resolved,           \* a query put to the Greeks resolver and its answer
    greeks_cache,       \* algorithm.greeks_cache: <<symbol, timestamp>> entries, in insertion order
    probe,              \* the calls of a function under examination: arguments and result
    options_data        \* OptionsDataManager: the chain snapshot and _last_snapshot_time

vars == <<day, minute, fired, IsWarmingUp, warmAtOpen, positions, openOrders,
          nextOrderId, holdings, todays_new_trades, cfg, phaseLog, cbPhases, cb,
          lastFill, risk_monitor, afterPhase2, resolved, greeks_cache, probe,
          options_data>>

Symbols == OptionSymbols \cup {underlying_symbol}

Now == day * 1440 + minute

\* ------------------------------------------------------------------------
\* Calendar and scheduler (main.py Initialize)
\* ------------------------------------------------------------------------
DayOfWeek(d) == ((d - 1) % 7) + 1

IsTradingDay(d) == DayOfWeek(d) <= 5

IsSunday(d) == DayOfWeek(d) = 7

\* Scheduler instants of a day, in minutes of day.  15:45, 15:50 and 15:55
\* are the literal TimeRules.At arguments; 15:59 is one minute before the
\* close, 16:00 the close, 16:01 one minute after it.
ScheduleTimes(d) ==
    IF IsTradingDay(d) THEN <<945, 950, 955, 959, 960, 961>>
    ELSE IF IsSunday(d) THEN <<961>>
    ELSE <<>>

ExecuteStrategyTimes == {945, 950, 955}

\* The data bar of a trading day that the model delivers to OnData: 10:00.
DATA_BAR_TIME == 600

\* Every instant of a day at which a handler is due.
Instants(d) ==
    IF IsTradingDay(d) THEN <<DATA_BAR_TIME>> \o ScheduleTimes(d) ELSE ScheduleTimes(d)

\* ------------------------------------------------------------------------
\* Ledger entries and orders
\* ------------------------------------------------------------------------
\* position_id as the code formats it: prefix, symbol, option part of the
\* hedge tag ("" when absent) and the time stamp.
OptionPositionId(symbol, now) == <<"opt", symbol, "", now>>

HedgePositionId(symbol, part, now) == <<"hedge", symbol, part, now>>

IsHedgeId(id) == id[1] = "hedge"

\* The dict stored by try_enter_position.  target_contracts 0 stands for None;
\* credit_received says whether the dict has that key, which this dict gets
\* only from a sell fill.
OptionEntry(symbol, size, now) ==
    [id |-> OptionPositionId(symbol, now), symbol |-> symbol, quantity |-> 0,
     target_contracts |-> size, timestamp |-> now, is_hedge |-> FALSE,
     close_retry_count |-> 0, quote_retry_count |-> 0, delta |-> 0,
     credit_received |-> FALSE, estimated_margin |-> 0]

\* A variant that stores the hedge dict without its is_hedge flag; the
\* one-leg property must tell it apart.
HedgeEntry_unflagged(symbol, part, qty, now) ==
    [id |-> HedgePositionId(symbol, part, now), symbol |-> symbol,
     quantity |-> qty, target_contracts |-> 0, timestamp |-> now,
     is_hedge |-> FALSE, close_retry_count |-> 0, quote_retry_count |-> 0,
     delta |-> 0, credit_received |-> TRUE, estimated_margin |-> 0]

\* The dict stored by OnOrderEvent for an unmatched equity fill.
HedgeEntry(symbol, part, qty, now) ==
    [id |-> HedgePositionId(symbol, part, now), symbol |-> symbol,
     quantity |-> qty, target_contracts |-> 0, timestamp |-> now,
     is_hedge |-> TRUE, close_retry_count |-> 0, quote_retry_count |-> 0,
     delta |-> 0, credit_received |-> TRUE, estimated_margin |-> 0]

\* An order event as OnOrderEvent reads it.
OrderEvent(status, o, qty) ==
    [Status |-> status, Symbol |-> o.symbol, FillQuantity |-> qty,
     Tag |-> o.tag, TagPart |-> o.part]

\* Index of the first ledger entry the fill loop matches, 0 when none does.
FirstMatch(pos, ev) ==
    LET M == {i \in DOMAIN pos :
                /\ pos[i].symbol = ev.Symbol
                /\ \/ IsHedgeId(pos[i].id) /\ IsEquity(ev.Symbol)
                   \/ ~IsHedgeId(pos[i].id) /\ IsOption(ev.Symbol)}
    IN IF M = {} THEN 0 ELSE MinOf(M)

\* hedge_id built from the order tag: "HEDGE_<option>" carries the option
\* part, every other tag falls back to the plain id.
HedgeIdForTag(ev, now) ==
    IF ev.Tag = "HEDGE" /\ ev.TagPart # ""
    THEN HedgePositionId(ev.Symbol, ev.TagPart, now)
    ELSE HedgePositionId(ev.Symbol, "", now)

\* A variant that keeps the entry a fill has brought to zero; the
\* round-trip property must tell it apart.
OnOrderEvent_keeps_zero(pos, ev, now) ==
    IF ev.Status # "Filled" THEN pos
    ELSE LET i == FirstMatch(pos, ev) IN
         IF i # 0
         THEN [pos EXCEPT ![i].quantity = @ + ev.FillQuantity,
                          ![i].credit_received =
                              @ \/ (IsOption(ev.Symbol) /\ ev.FillQuantity < 0)]
         ELSE IF ev.FillQuantity # 0 /\ IsEquity(ev.Symbol)
              THEN DictPut(pos, [HedgeEntry(ev.Symbol, "", ev.FillQuantity, now)
                                 EXCEPT !.id = HedgeIdForTag(ev, now)])
              ELSE pos

\* main.py OnOrderEvent: the ledger after the handler has processed ev.
OnOrderEvent(pos, ev, now) ==
    IF ev.Status # "Filled" THEN pos
    ELSE LET i == FirstMatch(pos, ev) IN
         IF i # 0
         THEN LET total_quantity == pos[i].quantity + ev.FillQuantity IN
              IF total_quantity = 0
              THEN RemoveAt(pos, i)
              ELSE [pos EXCEPT ![i].quantity = total_quantity,
                               ![i].credit_received =
                                   @ \/ (IsOption(ev.Symbol) /\ ev.FillQuantity < 0)]
         ELSE IF ev.FillQuantity # 0 /\ IsEquity(ev.Symbol)
              THEN DictPut(pos, [HedgeEntry(ev.Symbol, "", ev.FillQuantity, now)
                                 EXCEPT !.id = HedgeIdForTag(ev, now)])
              ELSE pos

Sign(x) == IF x < 0 THEN -1 ELSE IF x > 0 THEN 1 ELSE 0

\* ------------------------------------------------------------------------
\* Handler state: the ledger, the open orders, the next order id and the
\* log of what the running callback has done so far.
\* ------------------------------------------------------------------------
\* One entry of the log.
Ev(what) ==
    [what |-> what, ok |-> FALSE, used |-> 0, pv |-> 0, pos_id |-> <<>>, qty |-> 0]

HandlerState(pos, ord, oid) == [pos |-> pos, ord |-> ord, oid |-> oid, log |-> <<>>]

\* LimitOrder / MarketOrder / Liquidate: the order goes to the broker, which
\* stamps it with the time of submission (Order.Time).
Submit(s, symbol, qty, tag, part, what) ==
    [s EXCEPT !.ord = @ \cup {[id |-> s.oid, symbol |-> symbol, quantity |-> qty,
                                filled |-> 0, tag |-> tag, part |-> part,
                                time |-> Now]},
              !.oid = @ + 1,
              !.log = Append(@, Ev(what))]

Note(s, e) == [s EXCEPT !.log = Append(@, e)]

IndexOfId(pos, id) ==
    LET M == {i \in DOMAIN pos : pos[i].id = id}
    IN IF M = {} THEN 0 ELSE MinOf(M)

\* Python's None and a present value.
None == <<>>

Some(v) == <<v>>

\* ------------------------------------------------------------------------
\* Phase 0: exits (exit_rules.py)
\* ------------------------------------------------------------------------
\* main.py _execute_exit_delta_hedge: the chain contract's delta sizes a
\* market order on the underlying, tagged HEDGE_<option symbol>.
ExitDeltaHedge(s, symbol, qty, m) ==
    IF m.src.chain = None THEN s
    ELSE LET raw == Abs(qty) * m.src.chain[1]
             hedge_quantity == IF qty > 0 THEN -raw ELSE raw
         IN IF Abs(hedge_quantity) < 1 THEN s
            ELSE Submit(s, underlying_symbol, hedge_quantity, "HEDGE", symbol, "hedge")

\* exit_rules.py close_position.  cond is what the market says of the
\* instrument: "ok", "removed" (not in Securities), "noprice" (price <= 0),
\* "nontradable", "noquotes" (missing quotes or too wide a spread).  A
\* quote failure counts up quote_retry_count and returns, at the limit
\* ("close abandoned") as below it: no branch of it deletes the entry.
close_position(s, position_id, cond, m) ==
    LET i == IndexOfId(s.pos, position_id) IN
    IF i = 0 THEN s
    ELSE IF cond \in {"removed", "noprice"} THEN s
    ELSE IF cond = "nontradable"
         THEN IF s.pos[i].close_retry_count + 1 >= NONTRADABLE_RETRY_LIMIT
              THEN [s EXCEPT !.pos = RemoveAt(@, i)]
              ELSE [s EXCEPT !.pos[i].close_retry_count = @ + 1]
    ELSE IF s.pos[i].quantity = 0 THEN [s EXCEPT !.pos = RemoveAt(@, i)]
    ELSE IF cond = "noquotes"
         THEN [s EXCEPT !.pos[i].quote_retry_count = @ + 1]
    ELSE ExitDeltaHedge(
             Submit([s EXCEPT !.pos[i].quote_retry_count = 0],
                    s.pos[i].symbol, -s.pos[i].quantity, "EXIT", "", "exit"),
             s.pos[i].symbol, -s.pos[i].quantity, m)

\* The ids check_exit_conditions collects, in ledger order: rule is the
\* set of ledger indices whose exit rule fires at today's prices.
PositionsToClose(pos, rule, cond) ==
    LET Keep == {i \in DOMAIN pos :
                   /\ ~pos[i].is_hedge
                   /\ pos[i].quantity # 0
                   /\ \/ cond[pos[i].symbol] = "removed"
                      \/ cond[pos[i].symbol] # "noprice" /\ i \in rule}
    IN [k \in DOMAIN FilterIdx(pos, Keep, 1) |-> FilterIdx(pos, Keep, 1)[k].id]

RECURSIVE CloseAll(_, _, _, _, _)
CloseAll(s, ids, k, cond, m) ==
    IF k > Len(ids) THEN s
    ELSE CloseAll(close_position(s, ids[k], cond[ids[k][2]], m), ids, k + 1, cond, m)

\* The scan of check_exit_conditions reads entry_price, quantity and
\* credit_received of every priced option entry by key, outside any try
\* block: TRUE when one of these reads raises KeyError.
ScanRaises(pos, cond) ==
    \E i \in DOMAIN pos :
        /\ ~pos[i].is_hedge
        /\ pos[i].quantity # 0
        /\ cond[pos[i].symbol] \notin {"removed", "noprice"}
        /\ ~pos[i].credit_received

\* exit_rules.py check_exit_conditions (Phase 0).  An exception of the scan
\* leaves the function before the first close; ExecuteStrategy catches it.
check_exit_conditions(s, rule, cond, m) ==
    IF s.pos = <<>> THEN s
    ELSE IF IsWarmingUp THEN s
    ELSE IF ScanRaises(s.pos, cond) THEN Note(s, Ev("phase_error"))
    ELSE CloseAll(s, PositionsToClose(s.pos, rule, cond), 1, cond, m)

\* ------------------------------------------------------------------------
\* Phase 1: margin gate and entries (risk_manager.py, position_management.py)
\* ------------------------------------------------------------------------
\* risk_manager.py check_margin_capacity: <<has_capacity, available_margin>>.
check_margin_capacity(acct) ==
    LET target_margin == (acct.pv * TARGET_MARGIN_USE) \div 100
        avail0 == MaxOf({0, target_margin - acct.used})
        available_margin == MinOf({avail0, acct.remaining})
    IN IF ~acct.readable THEN <<FALSE, 0>>
       ELSE <<available_margin >= MIN_BUYING_POWER, available_margin>>

\* A variant that takes the smallest of the three estimates.
EstimatedMarginPerContract_smallest(und_px, strike, premium) ==
    LET otm == MaxOf({0, und_px - strike})
        estimate1 == MARGIN_ESTIMATE_1_UNDERLYING_PCT * und_px - otm * 100 + premium * 100
        estimate2 == MARGIN_ESTIMATE_2_UNDERLYING_PCT * und_px + premium * 100
        pct_floor == ESTIMATED_MARGIN_PCT * strike
    IN MaxOf({MARGIN_MINIMUM_FLOOR, MinOf({estimate1, estimate2, pct_floor})})

\* Reg-T style margin estimate for one short put, in dollars; the same
\* computation in risk_manager.py, position_management.py and
\* delta_hedging.py _calculate_current_margin_per_contract.
EstimatedMarginPerContract(und_px, strike, premium) ==
    LET otm == MaxOf({0, und_px - strike})
        estimate1 == MARGIN_ESTIMATE_1_UNDERLYING_PCT * und_px - otm * 100 + premium * 100
        estimate2 == MARGIN_ESTIMATE_2_UNDERLYING_PCT * und_px + premium * 100
        pct_floor == ESTIMATED_MARGIN_PCT * strike
    IN MaxOf({MARGIN_MINIMUM_FLOOR, estimate1, estimate2, pct_floor})

\* risk_manager.py calculate_position_size (dynamic sizing is off in config).
calculate_position_size(acct, und_px, strike, premium) ==
    LET available_margin == check_margin_capacity(acct)[2]
        max_margin_per_trade == (acct.pv * MAX_MARGIN_PER_TRADE_PCT) \div 100
        margin_per_position == MinOf({available_margin, max_margin_per_trade})
        per_contract == EstimatedMarginPerContract(und_px, strike, premium)
        contracts == IF margin_per_position < per_contract THEN 0
                     ELSE margin_per_position \div per_contract
        max_contracts_for_portfolio ==
            MaxOf({1, (acct.pv * MAX_CONTRACTS_PER_100K) \div 100000})
    IN MinOf({contracts, max_contracts_for_portfolio})

\* The market as the modelled chain quotes it: one strike and premium for
\* the candidate puts, one underlying price.
Chain == [strike |-> 285, premium |-> 3, price |-> 300]

\* position_management.py try_enter_position: the handler state after the
\* attempt, and whether it returned a truthy value.
try_enter_position(s, cand, m, now) ==
    LET position_size ==
            calculate_position_size(m.acct, Chain.price, Chain.strike, Chain.premium)
        estimated_margin ==
            EstimatedMarginPerContract(Chain.price, Chain.strike, Chain.premium)
                * position_size
        withEntry ==
            [s EXCEPT !.pos = DictPut(@, [OptionEntry(cand.symbol, position_size, now)
                                          EXCEPT !.delta = cand.delta,
                                                 !.estimated_margin = estimated_margin])]
    IN IF IsWarmingUp THEN [s |-> s, ok |-> FALSE]
       ELSE IF position_size <= 0 THEN [s |-> s, ok |-> FALSE]
       ELSE IF estimated_margin * 100 > m.acct.remaining * PRE_ORDER_MARGIN_SAFETY
            THEN [s |-> s, ok |-> FALSE]
       ELSE IF ~cand.quotes THEN [s |-> withEntry, ok |-> FALSE]
       ELSE [s |-> Submit(withEntry, cand.symbol, -position_size, "ENTRY", "", "entry"),
             ok |-> TRUE]

\* phase_executor.py _execute_new_trades, the loop over the intents.
RECURSIVE ExecuteIntents(_, _, _, _, _, _)
ExecuteIntents(s, intents, k, m, now, executed) ==
    IF k > Len(intents) THEN [s |-> s, executed |-> executed]
    ELSE LET r == try_enter_position(s, intents[k], m, now)
         IN ExecuteIntents(r.s, intents, k + 1, m, now,
                           IF r.ok THEN Append(executed, intents[k]) ELSE executed)

ActiveOptionCount(pos) ==
    Cardinality({i \in DOMAIN pos : pos[i].quantity # 0 /\ ~pos[i].is_hedge})

execute_new_trades(s, intents, can_add_positions, m, now) ==
    IF ~can_add_positions \/ intents = <<>> THEN [s |-> s, executed |-> <<>>]
    ELSE IF ActiveOptionCount(s.pos) < MAX_POSITIONS
         THEN ExecuteIntents(s, intents, 1, m, now, <<>>)
         ELSE [s |-> s, executed |-> <<>>]

\* ------------------------------------------------------------------------
\* Greeks resolver (options_data_manager.py, greeks_provider.py)
\* ------------------------------------------------------------------------
\* A source state src says what each source holds for the instrument:
\* sec, chain, cache are None or Some(delta); cacheSameDay and cacheWidth
\* (3 or 4 Greeks in the cached tuple) describe the cache entry; raises says
\* that reading the centralized manager throws.

\* OptionsDataManager._from_cache label.
CacheLabel(src) == IF src.cacheSameDay THEN "QC-CACHED" ELSE "QC-CACHED-STALE"

\* OptionsDataManager.get_delta.
ManagerGetDelta(src) ==
    IF src.sec # None THEN <<src.sec[1], "QC">>
    ELSE IF src.chain # None THEN <<src.chain[1], "QC-CHAIN">>
    ELSE IF src.cache # None THEN <<src.cache[1], CacheLabel(src)>>
    ELSE <<0, "QC-NONE">>

\* GreeksProvider._qc_greeks, delta component: None when the manager throws.
QcGreeksDelta(src) == IF src.raises THEN None ELSE Some(ManagerGetDelta(src)[1])

\* The analytic fallback for a put, in hundredths.
FallbackDelta(isPut) == IF isPut THEN -25 ELSE 25

\* GreeksProvider.get_delta: <<value, label>>.
ProviderGetDelta(src, isPut) ==
    LET d == QcGreeksDelta(src) IN
    IF d # None THEN <<d[1], "QC">>
    ELSE IF src.cache # None /\ src.cacheWidth = 3
         THEN <<src.cache[1], CacheLabel(src)>>
         ELSE <<FallbackDelta(isPut), "FALLBACK">>

\* The delta the hedger uses for an option.
ResolvedDelta(m) == ProviderGetDelta(m.src, TRUE)[1]

\* ------------------------------------------------------------------------
\* Delta aggregation (delta_hedging.py compute_delta_groups)
\* ------------------------------------------------------------------------
RECURSIVE SumSeq(_, _)
SumSeq(seq, k) == IF k > Len(seq) THEN 0 ELSE seq[k] + SumSeq(seq, k + 1)

SelectIdx(seq, Keep) == FilterIdx(seq, Keep, 1)

\* get_all_filled_option_positions: the Portfolio's option holdings.
FilledOptionSymbols(hold) == {sym \in OptionSymbols : hold[sym] # 0}

\* Option symbols in the iteration order of the Portfolio.
SymbolOrder == <<"o1", "o2">>

ActiveOptionIdx(pos) == {i \in DOMAIN pos : pos[i].quantity # 0 /\ ~pos[i].is_hedge}

HedgeEntryIdx(pos) ==
    {i \in DOMAIN pos : IsHedgeId(pos[i].id) /\ pos[i].is_hedge /\ pos[i].quantity # 0}

\* A hedge entry of any quantity makes the direct holding "already tracked".
AlreadyTracked(pos) ==
    \E i \in DOMAIN pos :
        pos[i].symbol = underlying_symbol /\ IsHedgeId(pos[i].id) /\ pos[i].is_hedge

\* pending item already filled according to the ledger.
PendingAlreadyFilled(pos, sym) ==
    \E i \in DOMAIN pos : pos[i].quantity # 0 /\ ~pos[i].is_hedge /\ pos[i].symbol = sym

\* Securities[und_sym].Price as the callback reads it: the price a reading
\* of the feed states for the underlying, the chain's price when the
\* reading does not state one.
UnderlyingPrice(m) ==
    IF "price" \in DOMAIN m.src THEN m.src.price ELSE Chain.price

\* Each += of the aggregation as one contribution record.
Contribution(kind, sym, qty, units, notional, dollar) ==
    [kind |-> kind, symbol |-> sym, qty |-> qty, units |-> units,
     notional |-> notional, dollar |-> dollar]

OptionContribution(kind, sym, qty, d, price, withNotional) ==
    Contribution(kind, sym, qty, d * qty,
                 IF withNotional THEN Abs(qty) * 100 * price ELSE 0,
                 d * qty * price)

\* The contributions in the order the code adds them.
GroupContributions(pos, hold, pending, m) ==
    LET price == UnderlyingPrice(m)
        d == ResolvedDelta(m)
        direct ==
            IF hold[underlying_symbol] # 0 /\ ~AlreadyTracked(pos)
            THEN <<Contribution("direct", underlying_symbol, hold[underlying_symbol],
                                hold[underlying_symbol],
                                hold[underlying_symbol] * price, 0)>>
            ELSE <<>>
        filledSyms == SelectIdx(SymbolOrder,
                          {k \in DOMAIN SymbolOrder : hold[SymbolOrder[k]] # 0})
        filled == [k \in DOMAIN filledSyms |->
                     OptionContribution("portfolio", filledSyms[k], hold[filledSyms[k]],
                                        d, price, TRUE)]
        act == SelectIdx(pos, {i \in ActiveOptionIdx(pos) :
                                  pos[i].symbol \notin FilledOptionSymbols(hold)})
        ledger == [k \in DOMAIN act |->
                     OptionContribution("ledger", act[k].symbol, act[k].quantity,
                                        d, price, TRUE)]
        hed == SelectIdx(pos, HedgeEntryIdx(pos))
        hedges == [k \in DOMAIN hed |->
                     Contribution("hedge", hed[k].symbol, hed[k].quantity, 0, 0,
                                  hed[k].quantity * price)]
        pen == SelectIdx(pending, {k \in DOMAIN pending :
                                     ~PendingAlreadyFilled(pos, pending[k].symbol)})
        pend == [k \in DOMAIN pen |->
                     OptionContribution("pending", pen[k].symbol, pen[k].qty,
                                        IF m.src.sec # None THEN m.src.sec[1]
                                        ELSE pen[k].cached_delta,
                                        price, FALSE)]
    IN direct \o filled \o ledger \o hedges \o pend

Field(seq, f(_)) == [k \in DOMAIN seq |-> f(seq[k])]

\* compute_delta_groups for the one underlying: the group record, with
\* present = FALSE when the dict has no group for it.
compute_delta_groups(pos, hold, pending, m) ==
    LET cs == GroupContributions(pos, hold, pending, m)
        DollarOf(c) == c.dollar
        UnitsOf(c) == c.units
        NotionalOf(c) == c.notional
        OptDollar(c) == IF c.kind \in {"portfolio", "ledger", "pending"} THEN c.dollar ELSE 0
        HedgeDollar(c) == IF c.kind = "hedge" THEN c.dollar ELSE 0
    IN [present |-> cs # <<>>,
        units |-> SumSeq(Field(cs, UnitsOf), 1),
        notional |-> SumSeq(Field(cs, NotionalOf), 1),
        dollar_delta |-> SumSeq(Field(cs, DollarOf), 1),
        option_delta |-> SumSeq(Field(cs, OptDollar), 1),
        hedge_delta |-> SumSeq(Field(cs, HedgeDollar), 1),
        price |-> UnderlyingPrice(m),
        contributions |-> cs]

\* ------------------------------------------------------------------------
\* Bands and Phase 2 (delta_hedging.py, analytics.py); money in thousandths
\* of a dollar wherever a band is involved.
\* ------------------------------------------------------------------------
\* Python round(): nearest integer, ties to even; den > 0.
RoundDiv(num, den) ==
    LET q == num \div den
        r == num % den
    IN IF 2 * r < den THEN q
       ELSE IF 2 * r > den THEN q + 1
       ELSE IF q % 2 = 0 THEN q ELSE q + 1

\* int(): truncation toward zero; den > 0.
TruncDiv(num, den) == IF num >= 0 THEN num \div den ELSE -((-num) \div den)

\* _nav_target_and_band: target and the band widened by the hysteresis.
nav_target_and_band(c, acct) ==
    LET tgt == acct.pv * c.nav_target
        tol == acct.pv * c.nav_tol
        hysteresis_buffer == (tol * NAV_HYSTERESIS_PCT) \div 100
    IN [tgt |-> tgt, lo |-> tgt - tol - hysteresis_buffer,
        hi |-> tgt + tol + hysteresis_buffer]

\* _trade_target_and_band.
trade_target_and_band(c, base_notional) ==
    LET target_notional == base_notional * c.trade_target
        tolerance_notional == base_notional * c.trade_tol
    IN [tgt |-> target_notional, lo |-> target_notional - tolerance_notional,
        hi |-> target_notional + tolerance_notional]

\* _trade_base_notional.
trade_base_notional(pos, pending, price) ==
    LET act == SelectIdx(pos, ActiveOptionIdx(pos))
        pen == SelectIdx(pending, {k \in DOMAIN pending :
                                     ~PendingAlreadyFilled(pos, pending[k].symbol)})
        ActNotional(p) == Abs(p.quantity) * 100 * price
        PenNotional(p) == Abs(p.qty) * 100 * price
    IN SumSeq(Field(act, ActNotional), 1) + SumSeq(Field(pen, PenNotional), 1)

\* analytics.py delta_bands: TRUE when the group is outside the raw band.
delta_bands(c, pos, hold, m) ==
    LET g == compute_delta_groups(pos, hold, <<>>, m)
        target == IF c.delta_band_mode = "NAV" THEN m.acct.pv * c.nav_target
                  ELSE g.notional * c.trade_target
        tolerance == IF c.delta_band_mode = "NAV" THEN m.acct.pv * c.nav_tol
                     ELSE g.notional * c.trade_tol
        cur == g.dollar_delta * 1000
    IN g.present /\ (cur < target - tolerance \/ cur > target + tolerance)

\* The pending list _execute_portfolio_rebalancing builds.
PendingList(trades) ==
    LET keep == SelectIdx(trades, {k \in DOMAIN trades : trades[k].target_contracts # 0})
    IN [k \in DOMAIN keep |->
          [symbol |-> keep[k].symbol, qty |-> keep[k].target_contracts,
           cached_delta |-> keep[k].delta]]

OpenQty(ord, sym) ==
    LET RECURSIVE Sum(_)
        Sum(S) == IF S = {} THEN 0
                  ELSE LET o == CHOOSE x \in S : TRUE IN o.quantity + Sum(S \ {o})
    IN Sum({o \in ord : o.symbol = sym})

\* _execute_underlying_hedge: net out open orders, then a market order.
execute_underlying_hedge(s, units_to_trade) ==
    LET units == units_to_trade - OpenQty(s.ord, underlying_symbol)
    IN IF units = 0 THEN s
       ELSE Submit(s, underlying_symbol, units, "HEDGE", "", "hedge")

\* size_factor of the reduction score, min(|quantity| / 50, 1), in
\* fiftieths.
size_factor(p) == MinOf({Abs(p.quantity), 50})

\* Positions the reduction considers, highest score first.  With one
\* delta, one margin estimate, one expiry and one premium for every
\* contract the score orders them by size_factor; Python's sort is stable.
RECURSIVE SortBySize(_)
SortBySize(seq) ==
    IF seq = <<>> THEN <<>>
    ELSE LET big == MaxOf({size_factor(seq[k]) : k \in DOMAIN seq})
             first == MinOf({k \in DOMAIN seq : size_factor(seq[k]) = big})
         IN <<seq[first]>> \o SortBySize(RemoveAt(seq, first))

\* The reduction loop: need is in thousandths of a dollar.  Each reduction
\* is logged ("P2 REDUCING") with the position and the signed quantity.
RECURSIVE ReduceLoop(_, _, _, _, _, _, _)
ReduceLoop(s, cands, k, need, reduced, d, price) ==
    IF k > Len(cands) \/ reduced >= need THEN s
    ELSE LET delta_per_contract == Abs(d) * price * 1000
             contracts_needed == TruncDiv(need - reduced, delta_per_contract)
             max_reduction_contracts ==
                 MinOf({contracts_needed,
                        (Abs(cands[k].quantity) * p2_option_reduction_max_pct) \div 100,
                        Abs(cands[k].quantity)})
             reduction_qty == IF cands[k].quantity > 0 THEN -max_reduction_contracts
                              ELSE max_reduction_contracts
         IN IF delta_per_contract <= 0
            THEN ReduceLoop(s, cands, k + 1, need, reduced, d, price)
            ELSE IF max_reduction_contracts = 0
            THEN ReduceLoop(s, cands, k + 1, need, reduced, d, price)
            ELSE ReduceLoop(Submit(Note(s, [Ev("reducing")
                                             EXCEPT !.pos_id = cands[k].id,
                                                    !.qty = reduction_qty]),
                                   cands[k].symbol, reduction_qty, "P2_REDUCTION",
                                   "", "reduce"),
                            cands, k + 1, need,
                            reduced + max_reduction_contracts * delta_per_contract, d,
                            price)

\* _execute_option_position_reduction.
execute_option_position_reduction(s, delta_dollar_delta, m) ==
    LET option_positions == SortBySize(SelectIdx(s.pos, ActiveOptionIdx(s.pos)))
    IN ReduceLoop(s, option_positions, 1, Abs(delta_dollar_delta), 0, ResolvedDelta(m),
                  UnderlyingPrice(m))

\* Liquidate of the framework: open orders of the symbol are cancelled and
\* a market order closes the holding.
Liquidate(s, symbol, hold) ==
    Submit([s EXCEPT !.ord = {o \in @ : o.symbol # symbol}],
           symbol, -hold[symbol], "LIQUIDATE", "", "liquidate")

\* The band Phase 2 tests the exposure against, in thousandths of a dollar.
\* execute_delta_hedge_universal, step 1: margin used as the portfolio
\* reports it, or the sum of the positive estimated_margin values of the
\* ledger when reading it raises AttributeError.
CurrentMarginUsed(pos, acct) ==
    IF acct.readable THEN acct.used
    ELSE SumSeq([i \in DOMAIN pos |-> IF pos[i].estimated_margin > 0
                                      THEN pos[i].estimated_margin ELSE 0],
           1)

P2Band(c, pos, pending, m) ==
    IF c.delta_band_mode = "NAV" THEN nav_target_and_band(c, m.acct)
    ELSE trade_target_and_band(c, trade_base_notional(pos, pending,
                                                      UnderlyingPrice(m)))

\* A variant whose hedge branch does not look at the projected margin; the
\* margin-ceiling property must tell it apart.
execute_delta_hedge_universal_unchecked(s, hold, trades, pending, c, m) ==
    LET option_positions_exist ==
            \E i \in DOMAIN s.pos : IsOption(s.pos[i].symbol) /\ s.pos[i].quantity # 0
        g == compute_delta_groups(s.pos, hold, pending, m)
        cur == g.dollar_delta * 1000
        band == P2Band(c, s.pos, pending, m)
        in_band == band.lo <= cur /\ cur <= band.hi
        desired == IF c.delta_revert_mode = "TARGET" THEN band.tgt
                   ELSE IF cur < band.lo THEN band.lo ELSE band.hi
        delta_dollar_delta == desired - cur
        units_to_trade == RoundDiv(delta_dollar_delta, UnderlyingPrice(m) * 1000)
        hedge_margin_requirement ==
            IF units_to_trade < 0
            THEN (Abs(units_to_trade) * UnderlyingPrice(m) * SHORT_MARGIN_PCT) \div 100
            ELSE 0
        current_margin_used == CurrentMarginUsed(s.pos, m.acct)
        projected_margin_used == current_margin_used + hedge_margin_requirement
        exceeds == projected_margin_used * 100 > overnight_margin_max * m.acct.pv
    IN IF ~option_positions_exist /\ trades = <<>>
       THEN IF hold[underlying_symbol] # 0
            THEN Liquidate([s EXCEPT !.pos = SelectIdx(@,
                                {i \in DOMAIN @ : ~(@[i].is_hedge
                                                    /\ @[i].symbol = underlying_symbol)})],
                           underlying_symbol, hold)
            ELSE s
       ELSE LET a == Note(s, Ev("aggregate")) IN
            IF ~g.present \/ g.dollar_delta = 0 THEN a
            ELSE IF in_band THEN Note(a, Ev("in_band"))
            ELSE IF units_to_trade = 0 THEN a
            ELSE LET b == Note(a, [Ev("projected") EXCEPT !.ok = exceeds,
                                                        !.used = projected_margin_used,
                                                        !.pv = m.acct.pv])
                 IN IF p2_underlying_hedge_enabled
                    THEN execute_underlying_hedge(Note(b, Ev("hedge_path")),
                                                  units_to_trade)
                    ELSE IF exceeds /\ p2_option_reduction_enabled
                    THEN execute_option_position_reduction(
                             Note(b, Ev("reduce_path")), delta_dollar_delta, m)
                    ELSE b

\* execute_delta_hedge_universal.
execute_delta_hedge_universal(s, hold, trades, pending, c, m) ==
    LET option_positions_exist ==
            \E i \in DOMAIN s.pos : IsOption(s.pos[i].symbol) /\ s.pos[i].quantity # 0
        g == compute_delta_groups(s.pos, hold, pending, m)
        cur == g.dollar_delta * 1000
        band == P2Band(c, s.pos, pending, m)
        in_band == band.lo <= cur /\ cur <= band.hi
        desired == IF c.delta_revert_mode = "TARGET" THEN band.tgt
                   ELSE IF cur < band.lo THEN band.lo ELSE band.hi
        delta_dollar_delta == desired - cur
        units_to_trade == RoundDiv(delta_dollar_delta, UnderlyingPrice(m) * 1000)
        hedge_margin_requirement ==
            IF units_to_trade < 0
            THEN (Abs(units_to_trade) * UnderlyingPrice(m) * SHORT_MARGIN_PCT) \div 100
            ELSE 0
        current_margin_used == CurrentMarginUsed(s.pos, m.acct)
        projected_margin_used == current_margin_used + hedge_margin_requirement
        exceeds == projected_margin_used * 100 > overnight_margin_max * m.acct.pv
    IN IF ~option_positions_exist /\ trades = <<>>
       THEN IF hold[underlying_symbol] # 0
            THEN Liquidate([s EXCEPT !.pos = SelectIdx(@,
                                {i \in DOMAIN @ : ~(@[i].is_hedge
                                                    /\ @[i].symbol = underlying_symbol)})],
                           underlying_symbol, hold)
            ELSE s
       ELSE LET a == Note(s, Ev("aggregate")) IN
            IF ~g.present \/ g.dollar_delta = 0 THEN a
            ELSE IF in_band THEN Note(a, Ev("in_band"))
            ELSE IF units_to_trade = 0 THEN a
            ELSE LET b == Note(a, [Ev("projected") EXCEPT !.ok = exceeds,
                                                        !.used = projected_margin_used,
                                                        !.pv = m.acct.pv])
                 IN IF ~exceeds /\ p2_underlying_hedge_enabled
                    THEN execute_underlying_hedge(Note(b, Ev("hedge_path")),
                                                  units_to_trade)
                    ELSE IF exceeds /\ p2_option_reduction_enabled
                    THEN execute_option_position_reduction(
                             Note(b, Ev("reduce_path")), delta_dollar_delta, m)
                    ELSE b

\* main.py _execute_portfolio_rebalancing (Phase 2).
execute_portfolio_rebalancing(s, hold, trades, c, m) ==
    IF delta_bands(c, s.pos, hold, m)
    THEN execute_delta_hedge_universal(Note(s, Ev("out_of_bounds")), hold, trades,
                                       PendingList(trades), c, m)
    ELSE s

\* delta_hedging.py execute_delta_hedge_for_trade.
execute_delta_hedge_for_trade(s, option_symbol, position_quantity, c, m) ==
    LET M == {i \in DOMAIN s.pos : s.pos[i].symbol = option_symbol}
        d == IF M = {} THEN ResolvedDelta(m) ELSE s.pos[MinOf(M)].delta
        price == UnderlyingPrice(m)
        notional_contrib == d * position_quantity * price * 1000
        base_notional == Abs(position_quantity) * 100 * price
        target_notional == base_notional * c.trade_target
        units0 == RoundDiv(target_notional - notional_contrib, price * 1000)
        units1 == units0 - OpenQty(s.ord, underlying_symbol)
        max_units == (m.acct.remaining * 9) \div (10 * price)
        units2 == IF Abs(units1) * price * 10 > m.acct.remaining * 9
                  THEN (IF units1 > 0 THEN max_units ELSE -max_units)
                  ELSE units1
    IN IF price <= 0 THEN s
       ELSE IF units0 = 0 \/ units1 = 0 \/ units2 = 0 THEN s
       ELSE Submit(s, underlying_symbol, units2, "HEDGE", option_symbol, "hedge")

\* main.py _execute_new_trade_hedges: skipped when the TRADE band is inert.
RECURSIVE HedgeTrades(_, _, _, _, _)
HedgeTrades(s, executed, k, c, m) ==
    IF k > Len(executed) THEN s
    ELSE LET M == {i \in DOMAIN s.pos : s.pos[i].symbol = executed[k].symbol}
             p == s.pos[MinOf(M)]
             target_qty == IF M = {} THEN 0
                           ELSE Abs(IF p.target_contracts # 0 THEN p.target_contracts
                                    ELSE p.quantity)
         IN HedgeTrades(IF target_qty # 0
                        THEN execute_delta_hedge_for_trade(s, executed[k].symbol,
                                                           -target_qty, c, m)
                        ELSE s,
                        executed, k + 1, c, m)

execute_new_trade_hedges(s, executed, c, m) ==
    LET equity_disabled == c.trade_target = 0 /\ c.trade_tol >= 1000
        future_disabled == c.trade_target_future = 0 /\ c.trade_tol_future >= 1000
    IN IF executed = <<>> THEN s
       ELSE IF equity_disabled /\ future_disabled THEN s
       ELSE HedgeTrades(s, executed, 1, c, m)

\* ------------------------------------------------------------------------
\* What the callbacks read from the broker and the data feed
\* ------------------------------------------------------------------------
\* Portfolio value, margin used and margin remaining as the broker reports
\* them, in dollars.
MarginUsedLevels == {0, 825000, 900000}

Accounts ==
    {[pv |-> 1000000, used |-> u, remaining |-> 1000000 - u, readable |-> TRUE] :
        u \in MarginUsedLevels}

NoAccount == [pv |-> 0, used |-> 0, remaining |-> 0, readable |-> TRUE]

\* An account whose TotalMarginUsed and MarginRemaining raise when read;
\* TotalPortfolioValue still answers.
UnreadableAccount == [pv |-> 1000000, used |-> 0, remaining |-> 0, readable |-> FALSE]

\* Deltas the feed quotes for the puts, in hundredths.
Deltas == {-20, -31, -33, -50}

LiveSource(d) ==
    [sec |-> Some(d), chain |-> Some(d), cache |-> None, cacheSameDay |-> TRUE,
     cacheWidth |-> 3, raises |-> FALSE]

NoSource ==
    [sec |-> None, chain |-> None, cache |-> None, cacheSameDay |-> TRUE,
     cacheWidth |-> 3, raises |-> FALSE]

MarketSources == {LiveSource(d) : d \in Deltas} \cup {NoSource}

\* The reading of a callback that reads nothing.
NoInput == [acct |-> NoAccount, src |-> NoSource]

\* Phase 0 reads the chain, Phase 1 the account, Phase 2 both.
Phase0Inputs == {[acct |-> NoAccount, src |-> x] : x \in MarketSources}

Phase1Inputs == {[acct |-> a, src |-> NoSource] : a \in Accounts}

Phase2Inputs == {[acct |-> a, src |-> x] : a \in Accounts, x \in MarketSources}

Conds == {"ok", "removed", "noprice", "nontradable", "noquotes"}

\* What the feed holds for each contract at 15:45; o2 is in no ledger
\* Phase 0 scans, so only the condition of o1 varies.
CondMaps == {[sym \in OptionSymbols |-> IF sym = "o1" THEN c ELSE "ok"] : c \in Conds}

\* Candidates a strategy hands over: the selected contract, its delta at
\* selection, whether quotes are available at order time and the
\* target_contracts key (0 when the strategy does not set it).
CandidateTargets == {0, 10}

CandidatesOf(syms) ==
    {[symbol |-> sym, delta |-> -20, quotes |-> q, target_contracts |-> tc] :
        sym \in syms, q \in BOOLEAN, tc \in CandidateTargets}

Candidates == CandidatesOf({"o1"})

MaxIntents == 1

Intents == UNION {[1..n -> Candidates] : n \in 0..MaxIntents}

\* ------------------------------------------------------------------------
\* The three phases (phase_executor.py) and ExecuteStrategy (main.py)
\* ------------------------------------------------------------------------
Outcome(s, trades, phases, m, pre) ==
    [s |-> s, trades |-> trades, phases |-> phases, m |-> m, pre |-> pre]

\* execute_phase_0_exits.
execute_phase_0_exits(o) ==
    {Outcome(check_exit_conditions(o.s, rule, cond, m), o.trades,
             Append(o.phases, 0), o.m, o.pre) :
        m \in Phase0Inputs, rule \in SUBSET DOMAIN o.s.pos, cond \in CondMaps}

\* execute_phase_1_trades_and_hedges for one reading of the account and one
\* answer of the strategy.
Phase1(o, intents, c, m, now) ==
    LET has_capacity == check_margin_capacity(m.acct)[1]
        checked == Note(o.s, [Ev("check") EXCEPT !.ok = has_capacity,
                                                  !.used = m.acct.used,
                                                  !.pv = m.acct.pv])
        r == execute_new_trades(checked, intents, has_capacity, m, now)
    IN Outcome(execute_new_trade_hedges(r.s, r.executed, c, m), r.executed,
               Append(o.phases, 1), o.m, o.pre)

execute_phase_1_trades_and_hedges(o, c, now) ==
    {Phase1(o, intents, c, m, now) : m \in Phase1Inputs, intents \in Intents}

\* execute_phase_2_portfolio_rebalancing.
execute_phase_2_portfolio_rebalancing(o, hold, c) ==
    {Outcome(execute_portfolio_rebalancing(o.s, hold, o.trades, c, m), o.trades,
             Append(o.phases, 2), m, o.s.pos) : m \in Phase2Inputs}

\* A variant that opens each phase from its time onwards instead of at
\* exactly its time; the phase-order property must tell it apart.
get_current_execution_phase_from(t) ==
    IF ~PHASE_SPLIT_ENABLED THEN <<TRUE, TRUE, TRUE>>
    ELSE <<t >= PHASE_0_TIME, t >= PHASE_1_TIME, t >= PHASE_2_TIME>>

\* _get_current_execution_phase: <<phase_0_allowed, phase_1_allowed,
\* phase_2_allowed>> at minute-of-day t.
get_current_execution_phase(t) ==
    IF ~PHASE_SPLIT_ENABLED THEN <<TRUE, TRUE, TRUE>>
    ELSE <<t = PHASE_0_TIME, t = PHASE_1_TIME, t = PHASE_2_TIME>>

\* ExecuteStrategy after the warm-up test: every outcome of the callback.
ExecuteStrategyOutcomes(o, t, hold, c, now) ==
    LET allowed == get_current_execution_phase(t)
        after0 == IF allowed[1] THEN execute_phase_0_exits(o) ELSE {o}
        after1 == IF allowed[2]
                  THEN UNION {execute_phase_1_trades_and_hedges(x, c, now) : x \in after0}
                  ELSE after0
    IN IF allowed[3]
       THEN UNION {execute_phase_2_portfolio_rebalancing(x, hold, c) : x \in after1}
       ELSE after1

\* A variant of the callback body without the warm-up test; the warm-up
\* property must tell it apart.
ExecuteStrategyBody_no_warmup_test(warming, o, t, hold, c, now) ==
    ExecuteStrategyOutcomes(o, t, hold, c, now)

\* The body of ExecuteStrategy: it returns before any phase while LEAN is
\* warming up.
ExecuteStrategyBody(warming, o, t, hold, c, now) ==
    IF warming THEN {o} ELSE ExecuteStrategyOutcomes(o, t, hold, c, now)

\* ------------------------------------------------------------------------
\* Housekeeping callbacks (main.py)
\* ------------------------------------------------------------------------
Days(n) == n * 1440

\* cleanup_old_positions: old zero-quantity entries and very old entries go.
\* (The hard cap of 1000 entries is beyond every ledger explored here.)
cleanup_old_positions(pos, now) ==
    LET cutoff_time == now - Days(POSITION_CLEANUP_DAYS)
        very_old_cutoff == now - Days(VERY_OLD_DAYS)
        old_positions ==
            {i \in DOMAIN pos :
                \/ pos[i].quantity = 0 /\ pos[i].timestamp < cutoff_time
                \/ pos[i].timestamp < very_old_cutoff}
    IN SelectIdx(pos, DOMAIN pos \ old_positions)

\* weekly_aggressive_cleanup: only the entries of the last seven days stay.
weekly_cleanup_positions(pos, now) ==
    LET cutoff_time == now - Days(WEEKLY_CLEANUP_DAYS)
    IN SelectIdx(pos, {i \in DOMAIN pos : ~(pos[i].timestamp < cutoff_time)})

\* CancelStaleEntryOrders: the open orders that survive.
cancel_stale_entry_orders(ord) == {o \in ord : o.tag # "ENTRY"}

\* config.py GREEKS_CACHE_CLEANUP_DAYS.
GREEKS_CACHE_CLEANUP_DAYS == 7

\* The capacity cleanup_old_greeks reads: neither attribute it asks for is
\* set on the algorithm, so it is the literal default.
GREEKS_CACHE_MAX_ENTRIES == 200

\* options_data_manager.py update_chain, the cache part: every contract of
\* the chain that belongs to an active ledger entry and carries a delta is
\* written to greeks_cache with the time of the bar.  quoted lists those
\* contracts in chain order.  Nothing looks at the size of the cache.
update_chain(cache, quoted, now) ==
    LET inChain == {quoted[k] : k \in DOMAIN quoted}
        held == {cache[i].sym : i \in DOMAIN cache}
        refreshed == [i \in DOMAIN cache |->
                        IF cache[i].sym \in inChain THEN [cache[i] EXCEPT !.ts = now]
                        ELSE cache[i]]
        added == SelectSeq(quoted, LAMBDA c : c \notin held)
    IN refreshed \o [k \in DOMAIN added |-> [sym |-> added[k], ts |-> now]]

\* A variant whose capacity pass drops the entries at the end of the dict.
cleanup_old_greeks_drops_newest(cache, now) ==
    LET cutoff_date == now \div 1440 - GREEKS_CACHE_CLEANUP_DAYS
        kept == SelectSeq(cache, LAMBDA e : ~(e.ts \div 1440 < cutoff_date))
    IN IF Len(kept) > GREEKS_CACHE_MAX_ENTRIES
       THEN SubSeq(kept, 1, GREEKS_CACHE_MAX_ENTRIES)
       ELSE kept

\* options_data_manager.py cleanup_old_greeks, the greeks_cache part: the
\* entries dated before the cutoff date go; if more than the capacity are
\* left, the items are sorted by timestamp (list.sort is stable, so equal
\* timestamps stay in dict order) and the first to_prune are deleted.
cleanup_old_greeks(cache, now) ==
    LET cutoff_date == now \div 1440 - GREEKS_CACHE_CLEANUP_DAYS
        kept == SelectSeq(cache, LAMBDA e : ~(e.ts \div 1440 < cutoff_date))
        to_prune == Len(kept) - GREEKS_CACHE_MAX_ENTRIES
        items == SortSeq([i \in DOMAIN kept |-> i],
                         LAMBDA a, b : \/ kept[a].ts < kept[b].ts
                                       \/ kept[a].ts = kept[b].ts /\ a < b)
        pruned == {items[i] : i \in 1..to_prune}
        left == SelectSeq([i \in DOMAIN kept |-> <<i, kept[i]>>],
                          LAMBDA p : p[1] \notin pruned)
    IN IF Len(kept) > GREEKS_CACHE_MAX_ENTRIES
       THEN [k \in DOMAIN left |-> left[k][2]]
       ELSE kept

\* ------------------------------------------------------------------------
\* Intraday risk monitor (intraday_risk_monitor.py) and OnData
\* (data_processor.py)
\* ------------------------------------------------------------------------
\* options_data_manager.py OptionsDataManager.__init__: an empty snapshot
\* and no snapshot time yet.
NewOptionsData == [chain_greeks_snapshot |-> {}, last_snapshot_time |-> None]

\* The monitor after construction.
NewRiskMonitor ==
    [last_risk_check_time |-> None, portfolio_start_value |-> None,
     last_risk_reduction_time |-> None]

\* What check_risk reads: the account above and below the reduction
\* threshold, and the Greeks of the position.
RiskMarginUsedLevels == {900000, 960000}

RiskInputs ==
    {[acct |-> [pv |-> 1000000, used |-> u, remaining |-> 1000000 - u,
                readable |-> TRUE], src |-> x] :
        u \in RiskMarginUsedLevels, x \in MarketSources}

\* _get_position_delta: the provider's delta, in hundredths.
RiskPositionDelta(m) == ProviderGetDelta(m.src, TRUE)[1]

\* The per-contract margin estimate of _find_highest_margin_position.
RiskMarginPerContract(und_px, strike) ==
    LET otm == MaxOf({0, und_px - strike})
    IN MaxOf({500, 20 * und_px - otm * 100, 10 * und_px, 10 * strike})

\* _find_highest_margin_position: index of the first option entry with the
\* largest estimated margin, 0 when there is none.
find_highest_margin_position(pos) ==
    LET C == {i \in DOMAIN pos : ~pos[i].is_hedge /\ pos[i].quantity # 0}
        margin(i) == RiskMarginPerContract(Chain.price, Chain.strike) * Abs(pos[i].quantity)
        Best == {i \in C : \A j \in C : margin(j) <= margin(i)}
    IN IF Best = {} THEN 0 ELSE MinOf(Best)

\* _execute_partial_risk_reduction: a closing order on the option tagged
\* MARGIN_<id> (limit or market, as quotes allow) and a market order on the
\* underlying tagged MARGIN_HEDGE_<id>.
execute_partial_risk_reduction(r, i, reduction_num, reduction_den, m, now) ==
    LET p == r.s.pos[i]
        partial_quantity == TruncDiv(Abs(p.quantity) * reduction_num, reduction_den)
        order_quantity == IF p.quantity > 0 THEN -partial_quantity ELSE partial_quantity
        hedge_quantity == TruncDiv(order_quantity * RiskPositionDelta(m) * 100, 100)
        closed == Submit(r.s, p.symbol, order_quantity, "MARGIN", p.id, "risk_reduction")
        hedged == IF hedge_quantity # 0
                  THEN Submit(closed, underlying_symbol, -hedge_quantity, "MARGIN_HEDGE",
                              p.id, "risk_hedge")
                  ELSE closed
    IN IF partial_quantity = 0 THEN r
       ELSE [s |-> hedged, rm |-> [r.rm EXCEPT !.last_risk_reduction_time = Some(now)]]

\* _check_risk_reduction at minute-of-day t; margins in half dollars where
\* the 50% stock margin enters.
check_risk_reduction(r, m, now, t) ==
    LET i == find_highest_margin_position(r.s.pos)
        margin_to_free == m.acct.used - (m.acct.pv * RISK_REDUCTION_TARGET) \div 100
        quantity == Abs(r.s.pos[i].quantity)
        option_margin == RiskMarginPerContract(Chain.price, Chain.strike) * quantity
        hedge_shares == TruncDiv(quantity * Abs(RiskPositionDelta(m)) * 100, 100)
        total2 == 2 * option_margin + hedge_shares * Chain.price
        allowed == get_current_execution_phase(t)
    IN IF m.acct.used * 100 < RISK_REDUCTION_THRESHOLD * m.acct.pv THEN r
       ELSE IF /\ r.rm.last_risk_reduction_time # None
               /\ now - r.rm.last_risk_reduction_time[1] < RISK_REDUCTION_COOLDOWN_MINUTES
            THEN r
       ELSE IF (t \div 60 = 15 /\ t % 60 >= 40) \/ t = 960 THEN r
       ELSE IF allowed[1] \/ allowed[2] \/ allowed[3] THEN r
       ELSE IF i = 0 THEN r
       ELSE IF total2 < margin_to_free THEN r
       ELSE IF 2 * margin_to_free >= total2
            THEN execute_partial_risk_reduction(r, i, 1, 1, m, now)
            ELSE execute_partial_risk_reduction(r, i, 2 * margin_to_free, total2, m, now)

\* _trigger_emergency_exit: a closing order tagged EMERGENCY_EXIT_<id> for
\* every option entry that holds contracts.
RECURSIVE EmergencyClose(_, _)
EmergencyClose(s, k) ==
    IF k > Len(s.pos) THEN s
    ELSE IF ~s.pos[k].is_hedge /\ s.pos[k].quantity # 0
         THEN EmergencyClose(Submit(s, s.pos[k].symbol, -s.pos[k].quantity,
                                    "EMERGENCY_EXIT", s.pos[k].id, "emergency"), k + 1)
         ELSE EmergencyClose(s, k + 1)

\* _check_risk_alerts: the emergency exit fires on the day's loss.
check_risk_alerts(r, m) ==
    LET start == r.rm.portfolio_start_value[1] IN
    IF start > 0 /\ (start - m.acct.pv) * 100 >= EMERGENCY_EXIT_THRESHOLD * start
    THEN [r EXCEPT !.s = EmergencyClose(r.s, 1)]
    ELSE r

\* IntradayRiskMonitor.check_risk at minute-of-day t.
check_risk(r, m, now, t) ==
    IF ~INTRADAY_RISK_MONITORING_ENABLED THEN r
    ELSE IF ~(9 <= t \div 60 /\ t \div 60 <= 16) THEN r
    ELSE IF /\ r.rm.last_risk_check_time # None
            /\ now - r.rm.last_risk_check_time[1] < RISK_CHECK_INTERVAL_MINUTES
         THEN r
    ELSE LET started ==
                 [r EXCEPT !.rm.last_risk_check_time = Some(now),
                           !.rm.portfolio_start_value =
                               IF @ = None THEN Some(m.acct.pv) ELSE @]
             alerted == check_risk_alerts(started, m)
         IN IF RISK_REDUCTION_ENABLED THEN check_risk_reduction(alerted, m, now, t)
            ELSE alerted

\* DataProcessor.process_data, as far as it reaches the broker: the risk
\* check outside the execution window.
process_data(r, m, now, t) ==
    LET is_execution_phase == (t \div 60 = 15 /\ t % 60 >= 40) \/ t = 960
    IN IF ~is_execution_phase THEN check_risk(r, m, now, t) ELSE r

\* IntradayRiskMonitor.reset_daily.
reset_daily(rm) == [rm EXCEPT !.portfolio_start_value = None]

\* ------------------------------------------------------------------------
\* The state machine
\* ------------------------------------------------------------------------
\* A report: the callback's name, its log, and for Phase 2 what it read
\* and the ledger it started from.
NoCallback == [name |-> "none", log |-> <<>>, m |-> NoInput, pos |-> <<>>]

\* No order event delivered.
NoFill ==
    [ev |-> [Status |-> "none", Symbol |-> "", FillQuantity |-> 0, Tag |-> "",
             TagPart |-> ""],
     pre |-> <<>>, now |-> 0]

\* No query put to the resolver.
NoQuery == [src |-> NoSource, isPut |-> TRUE, asked |-> FALSE, answered |-> FALSE,
            value |-> 0, label |-> ""]

Report(name, log, m, pos) == [name |-> name, log |-> log, m |-> m, pos |-> pos]

Configs == {ShippedConfig, TradeConfig}

Init ==
    /\ day = 5
    /\ minute = PHASE_0_TIME
    /\ fired = FALSE
    /\ IsWarmingUp = TRUE
    /\ warmAtOpen = TRUE
    /\ positions = <<>>
    /\ openOrders = {}
    /\ nextOrderId = 1
    /\ holdings = [sym \in Symbols |-> 0]
    /\ todays_new_trades = <<>>
    /\ cfg \in Configs
    /\ phaseLog = <<>>
    /\ cbPhases = <<>>
    /\ cb = NoCallback
    /\ lastFill = NoFill
    /\ risk_monitor = NewRiskMonitor
    /\ afterPhase2 = FALSE
    /\ resolved = NoQuery
    /\ greeks_cache = <<>>
    /\ probe = <<>>
    /\ options_data = NewOptionsData

Due(t) == ~fired /\ minute = t

\* The next scheduler instant after <<d, t>>.
RECURSIVE NextInstant(_, _)
NextInstant(d, t) ==
    LET later == {k \in DOMAIN Instants(d) : Instants(d)[k] > t}
    IN IF later # {} THEN <<d, Instants(d)[MinOf(later)]>>
       ELSE NextInstant(d + 1, 0)

\* An exception has left the latest callback: LEAN stops the algorithm.
HostStopped == \E k \in DOMAIN cb.log : cb.log[k].what = "unhandled"

\* The clock moves on once the callback of this instant has returned.
Tick ==
    /\ fired
    /\ ~HostStopped
    /\ LET n == NextInstant(day, minute) IN
       /\ n[1] <= MaxDay
       /\ n[1] <= MaxWarmupDay \/ ~IsWarmingUp
       /\ day' = n[1]
       /\ minute' = n[2]
       /\ warmAtOpen' = IF n[1] # day THEN IsWarmingUp ELSE warmAtOpen
       /\ phaseLog' = IF n[1] # day THEN <<>> ELSE phaseLog
    /\ fired' = FALSE
    /\ cbPhases' = <<>>
    /\ cb' = NoCallback
    /\ UNCHANGED <<IsWarmingUp, positions, openOrders, nextOrderId, holdings,
                   todays_new_trades, cfg, lastFill, risk_monitor, afterPhase2,
                   resolved, greeks_cache, probe>>
    /\ UNCHANGED options_data

\* LEAN finishes the warm-up period.
EndWarmUp ==
    /\ IsWarmingUp
    /\ ~fired
    /\ IsWarmingUp' = FALSE
    /\ warmAtOpen' = IF minute = PHASE_0_TIME THEN FALSE ELSE warmAtOpen
    /\ UNCHANGED <<day, minute, fired, positions, openOrders, nextOrderId, holdings,
                   todays_new_trades, cfg, phaseLog, cbPhases, cb, lastFill,
                   risk_monitor, afterPhase2, resolved, greeks_cache, probe>>
    /\ UNCHANGED options_data

\* The broker fills what is left of an open order; OnOrderEvent runs.
Fill ==
    /\ ~fired
    /\ IsTradingDay(day)
    /\ \E o \in openOrders :
         LET q == o.quantity - o.filled IN
         /\ holdings' = [holdings EXCEPT ![o.symbol] = @ + q]
         /\ positions' = OnOrderEvent(positions, OrderEvent("Filled", o, q), Now)
         /\ openOrders' = openOrders \ {o}
         /\ lastFill' = [ev |-> OrderEvent("Filled", o, q), pre |-> positions,
                         now |-> Now]
    /\ UNCHANGED <<day, minute, fired, IsWarmingUp, warmAtOpen, nextOrderId,
                   todays_new_trades, cfg, phaseLog, cbPhases, cb, risk_monitor,
                   afterPhase2, resolved, greeks_cache, probe>>
    /\ UNCHANGED options_data

\* The broker fills half of an order nothing of which is filled yet;
\* OnOrderEvent runs with status PartiallyFilled.
PartialFill ==
    /\ ~fired
    /\ IsTradingDay(day)
    /\ \E o \in openOrders :
         LET q == TruncDiv(o.quantity - o.filled, 2) IN
         /\ q # 0
         /\ o.filled = 0
         /\ holdings' = [holdings EXCEPT ![o.symbol] = @ + q]
         /\ positions' = OnOrderEvent(positions, OrderEvent("PartiallyFilled", o, q), Now)
         /\ openOrders' = (openOrders \ {o}) \cup {[o EXCEPT !.filled = @ + q]}
         /\ lastFill' = [ev |-> OrderEvent("PartiallyFilled", o, q), pre |-> positions,
                         now |-> Now]
    /\ UNCHANGED <<day, minute, fired, IsWarmingUp, warmAtOpen, nextOrderId,
                   todays_new_trades, cfg, phaseLog, cbPhases, cb, risk_monitor,
                   afterPhase2, resolved, greeks_cache, probe>>
    /\ UNCHANGED options_data

\* Scheduled at 15:45, 15:50 and 15:55 of every trading day.
ExecuteStrategy ==
    /\ ~fired
    /\ minute \in ExecuteStrategyTimes
    /\ fired' = TRUE
    /\ lastFill' = NoFill
    /\ UNCHANGED <<greeks_cache, probe, resolved, risk_monitor>>
    /\ \E o \in ExecuteStrategyBody(
                  IsWarmingUp,
                  Outcome(HandlerState(positions, openOrders, nextOrderId),
                          todays_new_trades, <<>>, NoInput, <<>>),
                  minute, holdings, cfg, Now) :
         /\ o.s.oid <= MaxOrders + 1
         /\ positions' = o.s.pos
         /\ openOrders' = o.s.ord
         /\ nextOrderId' = o.s.oid
         /\ todays_new_trades' = o.trades
         /\ cbPhases' = o.phases
         /\ phaseLog' = phaseLog \o [k \in DOMAIN o.phases |-> <<o.phases[k], minute>>]
         /\ cb' = Report("ExecuteStrategy", o.s.log, o.m, o.pre)
         /\ afterPhase2' = IF \E k \in DOMAIN o.phases : o.phases[k] = 2 THEN TRUE
                           ELSE IF \E k \in DOMAIN o.phases : o.phases[k] = 0
                                THEN FALSE
                                ELSE afterPhase2
    /\ UNCHANGED <<day, minute, IsWarmingUp, warmAtOpen, holdings, cfg>>
    /\ UNCHANGED options_data

\* Scheduled one minute before the close.
CancelStaleEntryOrders ==
    /\ Due(959)
    /\ fired' = TRUE
    /\ lastFill' = NoFill
    /\ UNCHANGED <<greeks_cache, probe, resolved, risk_monitor, afterPhase2>>
    /\ openOrders' = cancel_stale_entry_orders(openOrders)
    /\ cb' = Report("CancelStaleEntryOrders", <<>>, NoInput, <<>>)
    /\ UNCHANGED <<day, minute, IsWarmingUp, warmAtOpen, positions, nextOrderId,
                   holdings, todays_new_trades, cfg, phaseLog, cbPhases>>
    /\ UNCHANGED options_data

\* config.py DEBUG_MODE.
DEBUG_MODE == TRUE

\* What the EOD report may find for an option: Greeks on the security, a
\* security whose Greeks cannot be read, or nothing.
EODSources == {NoSource, [NoSource EXCEPT !.raises = TRUE], LiveSource(-20)}

\* analytics.py log_eod_greeks: TRUE when an exception leaves it.  The loop
\* over the entries that hold a quantity is not inside a try block; for an
\* option without a same-day cache entry it reads the Greeks of the
\* security.
log_eod_greeks_raises(pos, src) ==
    \E i \in DOMAIN pos :
        /\ pos[i].quantity # 0
        /\ ~pos[i].is_hedge
        /\ ~(src.cache # None /\ src.cacheSameDay)
        /\ src.raises

\* Scheduled at the close; it only writes to the log, and has no try block
\* of its own.
LogEODPosition ==
    /\ Due(960)
    /\ fired' = TRUE
    /\ lastFill' = NoFill
    /\ UNCHANGED <<greeks_cache, probe, resolved, risk_monitor, afterPhase2>>
    /\ \E src \in EODSources :
         cb' = Report("LogEODPosition",
                      IF DEBUG_MODE /\ log_eod_greeks_raises(positions, src)
                      THEN <<Ev("unhandled")>> ELSE <<>>,
                      [acct |-> NoAccount, src |-> src], <<>>)
    /\ UNCHANGED <<day, minute, IsWarmingUp, warmAtOpen, positions, openOrders,
                   nextOrderId, holdings, todays_new_trades, cfg, phaseLog, cbPhases>>
    /\ UNCHANGED options_data

\* Scheduled one minute after the close of every trading day.  (The second
\* call of cleanup_old_greeks finds nothing left to do.)
daily_cleanup ==
    /\ Due(961)
    /\ IsTradingDay(day)
    /\ fired' = TRUE
    /\ lastFill' = NoFill
    /\ UNCHANGED <<probe, resolved, afterPhase2>>
    /\ todays_new_trades' = <<>>
    /\ greeks_cache' = cleanup_old_greeks(greeks_cache, Now)
    /\ risk_monitor' = reset_daily(risk_monitor)
    /\ positions' = cleanup_old_positions(positions, Now)
    /\ cb' = Report("daily_cleanup", <<>>, NoInput, <<>>)
    /\ UNCHANGED <<day, minute, IsWarmingUp, warmAtOpen, openOrders, nextOrderId,
                   holdings, cfg, phaseLog, cbPhases>>
    /\ UNCHANGED options_data

\* Scheduled on Sundays, one minute after the close time.
weekly_aggressive_cleanup ==
    /\ Due(961)
    /\ IsSunday(day)
    /\ fired' = TRUE
    /\ lastFill' = NoFill
    /\ UNCHANGED <<probe, resolved, risk_monitor, afterPhase2>>
    /\ greeks_cache' = <<>>
    /\ positions' = weekly_cleanup_positions(positions, Now)
    /\ cb' = Report("weekly_aggressive_cleanup", <<>>, NoInput, <<>>)
    /\ UNCHANGED <<day, minute, IsWarmingUp, warmAtOpen, openOrders, nextOrderId,
                   holdings, todays_new_trades, cfg, phaseLog, cbPhases>>
    /\ UNCHANGED options_data

\* A data bar arrives: OnData hands it to DataProcessor.process_data.
OnData ==
    /\ Due(DATA_BAR_TIME)
    /\ IsTradingDay(day)
    /\ fired' = TRUE
    /\ lastFill' = NoFill
    /\ \E m \in RiskInputs :
         LET r == process_data([s |-> HandlerState(positions, openOrders, nextOrderId),
                                rm |-> risk_monitor], m, Now, minute) IN
         /\ r.s.oid <= MaxOrders + 1
         /\ openOrders' = r.s.ord
         /\ nextOrderId' = r.s.oid
         /\ risk_monitor' = r.rm
         /\ cb' = Report("OnData", r.s.log, m, positions)
    /\ UNCHANGED <<day, minute, IsWarmingUp, warmAtOpen, positions, holdings,
                   todays_new_trades, cfg, phaseLog, cbPhases, afterPhase2, resolved, greeks_cache, probe>>
    /\ UNCHANGED options_data

Next ==
    \/ Tick
    \/ OnData
    \/ EndWarmUp
    \/ Fill
    \/ PartialFill
    \/ ExecuteStrategy
    \/ CancelStaleEntryOrders
    \/ LogEODPosition
    \/ daily_cleanup
    \/ weekly_aggressive_cleanup

Spec == Init /\ [][Next]_vars

\* ------------------------------------------------------------------------
\* The Greeks resolver on its own: every combination of sources is put to
\* GreeksProvider.get_delta once.
\* ------------------------------------------------------------------------
\* What the security, the chain snapshot and the cache may hold for one
\* option, whether the cache entry is of today, how wide its tuple is, and
\* whether the data manager throws.
GreeksSources ==
    [sec : {None, Some(-20)}, chain : {None, Some(-33)}, cache : {None, Some(-50)},
     cacheSameDay : BOOLEAN, cacheWidth : {3, 4}, raises : BOOLEAN]

Query(src, isPut) ==
    [src |-> src, isPut |-> isPut, asked |-> TRUE, answered |-> FALSE,
     value |-> 0, label |-> ""]

InitGreeks ==
    /\ day = 5
    /\ minute = PHASE_0_TIME
    /\ fired = FALSE
    /\ IsWarmingUp = TRUE
    /\ warmAtOpen = TRUE
    /\ positions = <<>>
    /\ openOrders = {}
    /\ nextOrderId = 1
    /\ holdings = [sym \in Symbols |-> 0]
    /\ todays_new_trades = <<>>
    /\ cfg = ShippedConfig
    /\ phaseLog = <<>>
    /\ cbPhases = <<>>
    /\ cb = NoCallback
    /\ lastFill = NoFill
    /\ risk_monitor = NewRiskMonitor
    /\ afterPhase2 = FALSE
    /\ resolved \in {Query(src, isPut) : src \in GreeksSources, isPut \in BOOLEAN}
    /\ greeks_cache = <<>>
    /\ probe = <<>>
    /\ options_data = NewOptionsData

\* A caller asks for the delta of the option.
get_delta ==
    /\ resolved.asked /\ ~resolved.answered
    /\ LET r == ProviderGetDelta(resolved.src, resolved.isPut)
       IN resolved' = [resolved EXCEPT !.answered = TRUE, !.value = r[1],
                                       !.label = r[2]]
    /\ UNCHANGED <<day, minute, fired, IsWarmingUp, warmAtOpen, positions, openOrders,
                   nextOrderId, holdings, todays_new_trades, cfg, phaseLog, cbPhases,
                   cb, lastFill, risk_monitor, afterPhase2, greeks_cache, probe>>
    /\ UNCHANGED options_data

NextGreeks == get_delta

SpecGreeks == InitGreeks /\ [][NextGreeks]_vars

\* ------------------------------------------------------------------------
\* Phase 0 on its own: ExecuteStrategy at 15:45 over a ledger of up to
\* MaxExitLedger option entries.
\* ------------------------------------------------------------------------
MaxExitLedger == 3

\* The entries a ledger holds at 15:45: a short entry (its sell fill left
\* the credit_received key), a placeholder whose order has not filled, and
\* a long entry made by a buy fill that landed on a placeholder.
ExitEntry(k, q) ==
    [OptionEntry("o1", 5, 5 * 1440 + PHASE_1_TIME + k)
        EXCEPT !.quantity = q, !.credit_received = (q < 0)]

ExitLedgers ==
    UNION {[1..n -> {-5, 0, 5}] : n \in 1..MaxExitLedger}

InitExits ==
    /\ day = 8
    /\ minute = PHASE_0_TIME
    /\ fired = FALSE
    /\ IsWarmingUp = FALSE
    /\ warmAtOpen = FALSE
    /\ \E qs \in ExitLedgers :
         /\ positions = [k \in DOMAIN qs |-> ExitEntry(k, qs[k])]
         /\ holdings = [sym \in Symbols |->
                           IF sym = "o1" THEN SumSeq(qs, 1) ELSE 0]
    /\ openOrders = {}
    /\ nextOrderId = 1
    /\ todays_new_trades = <<>>
    /\ cfg = ShippedConfig
    /\ phaseLog = <<>>
    /\ cbPhases = <<>>
    /\ cb = NoCallback
    /\ lastFill = NoFill
    /\ risk_monitor = NewRiskMonitor
    /\ afterPhase2 = TRUE
    /\ resolved = NoQuery
    /\ greeks_cache = <<>>
    /\ probe = <<>>
    /\ options_data = NewOptionsData

NextExits == ExecuteStrategy

SpecExits == InitExits /\ [][NextExits]_vars

\* ------------------------------------------------------------------------
\* Phase 2 on its own: the 15:55 callback over a ledger of filled option
\* positions, where the option-position reduction has several positions
\* to choose from.
\* ------------------------------------------------------------------------
MaxReduceLedger == 3

\* Contracts the filled entries hold: short puts of several sizes (two
\* above the 50 contracts the size factor saturates at, one too small for
\* the percentage bound to leave a whole contract) and a long entry made
\* by a buy fill that overshot.
ReduceQuantities == {-60, -55, -31, -12, -3, 20}

\* Contracts a ledger holds in all: the exposure stays within 32 bits.
MaxReduceContracts == 130

ReduceEntry(k, q) ==
    [OptionEntry("o1", Abs(q), 5 * 1440 + PHASE_1_TIME + k)
        EXCEPT !.quantity = q, !.credit_received = (q < 0), !.delta = -20]

ReduceLedgers ==
    {qs \in UNION {[1..n -> ReduceQuantities] : n \in 1..MaxReduceLedger} :
        SumSeq([k \in DOMAIN qs |-> Abs(qs[k])], 1) <= MaxReduceContracts}

\* Shares of the underlying the account holds next to the options: none,
\* or a short hedge leg.
ReduceShares == {0, -300}

InitReduce ==
    /\ day = 8
    /\ minute = PHASE_2_TIME
    /\ fired = FALSE
    /\ IsWarmingUp = FALSE
    /\ warmAtOpen = FALSE
    /\ \E qs \in ReduceLedgers, sh \in ReduceShares :
         /\ positions = [k \in DOMAIN qs |-> ReduceEntry(k, qs[k])]
         /\ holdings = [sym \in Symbols |->
                           IF sym = "o1" THEN SumSeq(qs, 1)
                           ELSE IF sym = underlying_symbol THEN sh ELSE 0]
    /\ openOrders = {}
    /\ nextOrderId = 1
    /\ todays_new_trades = <<>>
    /\ cfg = ShippedConfig
    /\ phaseLog = <<>>
    /\ cbPhases = <<>>
    /\ cb = NoCallback
    /\ lastFill = NoFill
    /\ risk_monitor = NewRiskMonitor
    /\ afterPhase2 = FALSE
    /\ resolved = NoQuery
    /\ greeks_cache = <<>>
    /\ probe = <<>>
    /\ options_data = NewOptionsData

NextReduce == ExecuteStrategy

SpecReduce == InitReduce /\ [][NextReduce]_vars

\* ------------------------------------------------------------------------
\* Phase 2 with an order for the underlying still open: the limit order by
\* which the Phase 2 of the trading day before bought shares at the close
\* price has not filled, and nothing cancels a hedge order.
\* ------------------------------------------------------------------------
NettingOpenOrders ==
    {{},
     {[id |-> 1, symbol |-> underlying_symbol, quantity |-> 300, filled |-> 0,
       tag |-> "HEDGE", part |-> "", time |-> 5 * 1440 + PHASE_2_TIME]}}

InitNetting ==
    /\ day = 8
    /\ minute = PHASE_2_TIME
    /\ fired = FALSE
    /\ IsWarmingUp = FALSE
    /\ warmAtOpen = FALSE
    /\ \E qs \in ReduceLedgers, sh \in ReduceShares :
         /\ positions = [k \in DOMAIN qs |-> ReduceEntry(k, qs[k])]
         /\ holdings = [sym \in Symbols |->
                           IF sym = "o1" THEN SumSeq(qs, 1)
                           ELSE IF sym = underlying_symbol THEN sh ELSE 0]
    /\ openOrders \in NettingOpenOrders
    /\ nextOrderId = Cardinality(openOrders) + 1
    /\ todays_new_trades = <<>>
    /\ cfg = ShippedConfig
    /\ phaseLog = <<>>
    /\ cbPhases = <<>>
    /\ cb = NoCallback
    /\ lastFill = NoFill
    /\ risk_monitor = NewRiskMonitor
    /\ afterPhase2 = FALSE
    /\ resolved = NoQuery
    /\ greeks_cache = <<>>
    /\ probe = <<>>
    /\ options_data = NewOptionsData

NextNetting == ExecuteStrategy

SpecNetting == InitNetting /\ [][NextNetting]_vars

\* ------------------------------------------------------------------------
\* Phase 1 on its own: the 15:50 callback over a ledger that is at or close
\* to the maximum number of positions, with a strategy whose select_entries
\* returns up to MaxEntryIntents intents for different contracts.
\* ------------------------------------------------------------------------
MaxEntryIntents == 2

EntryAnswers ==
    {a \in UNION {[1..n -> CandidatesOf(OptionSymbols)] : n \in 0..MaxEntryIntents} :
        \A i, j \in DOMAIN a : i # j => a[i].symbol # a[j].symbol}

\* Open positions the ledger holds at 15:50, one contract each, entered on
\* earlier days.
EntryLedger(n) ==
    [k \in 1..n |->
        [OptionEntry("o1", 1, 4 * 1440 + PHASE_1_TIME + k)
            EXCEPT !.quantity = -1, !.credit_received = TRUE, !.delta = -20,
                   !.estimated_margin =
                       EstimatedMarginPerContract(Chain.price, Chain.strike,
                                                  Chain.premium)]]

\* The account as Phase 1 reads it, including a reading that raises.
EntryInputs == Phase1Inputs \cup {[acct |-> UnreadableAccount, src |-> NoSource]}

EntryLedgerSizes == {MAX_POSITIONS - 2, MAX_POSITIONS - 1, MAX_POSITIONS}

InitEntries ==
    /\ day = 5
    /\ minute = PHASE_1_TIME
    /\ fired = FALSE
    /\ IsWarmingUp = FALSE
    /\ warmAtOpen = FALSE
    /\ \E n \in EntryLedgerSizes :
         /\ positions = EntryLedger(n)
         /\ holdings = [sym \in Symbols |-> IF sym = "o1" THEN -n ELSE 0]
    /\ openOrders = {}
    /\ nextOrderId = 1
    /\ todays_new_trades = <<>>
    /\ cfg \in Configs \cup {FutureTradeConfig}
    /\ phaseLog = <<>>
    /\ cbPhases = <<>>
    /\ cb = NoCallback
    /\ lastFill = NoFill
    /\ risk_monitor = NewRiskMonitor
    /\ afterPhase2 = FALSE
    /\ resolved = NoQuery
    /\ greeks_cache = <<>>
    /\ probe = <<>>
    /\ options_data = NewOptionsData

\* ExecuteStrategy at 15:50 with that strategy: Phase 1 alone.
EnterTrades ==
    /\ Due(PHASE_1_TIME)
    /\ ~IsWarmingUp
    /\ fired' = TRUE
    /\ lastFill' = NoFill
    /\ UNCHANGED <<greeks_cache, probe, resolved, risk_monitor, afterPhase2>>
    /\ \E m \in EntryInputs, intents \in EntryAnswers :
         LET o == Phase1(Outcome(HandlerState(positions, openOrders, nextOrderId),
                                 todays_new_trades, <<>>, NoInput, <<>>),
                         intents, cfg, m, Now)
         IN /\ o.s.oid <= MaxOrders + 1
            /\ positions' = o.s.pos
            /\ openOrders' = o.s.ord
            /\ nextOrderId' = o.s.oid
            /\ todays_new_trades' = o.trades
            /\ cbPhases' = o.phases
            /\ phaseLog' = phaseLog \o [k \in DOMAIN o.phases |-> <<o.phases[k], minute>>]
            /\ cb' = Report("ExecuteStrategy", o.s.log, m, positions)
    /\ UNCHANGED <<day, minute, IsWarmingUp, warmAtOpen, holdings, cfg>>
    /\ UNCHANGED options_data

NextEntries == EnterTrades

SpecEntries == InitEntries /\ [][NextEntries]_vars

\* ------------------------------------------------------------------------
\* Phase 2 under a feed that states the price of the underlying, which is
\* zero before the first bar of the security has arrived.
\* ------------------------------------------------------------------------
PriceLevels == {0, Chain.price}

PricedSource(d, px) ==
    [sec |-> Some(d), chain |-> Some(d), cache |-> None, cacheSameDay |-> TRUE,
     cacheWidth |-> 3, raises |-> FALSE, price |-> px]

PriceInputs ==
    {[acct |-> a, src |-> PricedSource(d, px)] :
        a \in Accounts, d \in Deltas, px \in PriceLevels}

\* ExecuteStrategy at 15:55: the band test of analytics.py, whose call of
\* compute_delta_groups is recorded, and the rebalancing.
RebalanceAtPrice ==
    /\ Due(PHASE_2_TIME)
    /\ ~IsWarmingUp
    /\ fired' = TRUE
    /\ lastFill' = NoFill
    /\ afterPhase2' = TRUE
    /\ UNCHANGED <<greeks_cache, resolved, risk_monitor, todays_new_trades>>
    /\ \E m \in PriceInputs :
         \E s \in {execute_portfolio_rebalancing(
                      HandlerState(positions, openOrders, nextOrderId), holdings,
                      todays_new_trades, cfg, m)} :
            /\ positions' = s.pos
            /\ openOrders' = s.ord
            /\ nextOrderId' = s.oid
            /\ cbPhases' = <<2>>
            /\ phaseLog' = Append(phaseLog, <<2, minute>>)
            /\ cb' = Report("ExecuteStrategy", s.log, m, positions)
            /\ probe' = Append(probe,
                               [m |-> m,
                                groups |-> compute_delta_groups(positions, holdings,
                                                                <<>>, m)])
    /\ UNCHANGED <<day, minute, IsWarmingUp, warmAtOpen, holdings, cfg>>
    /\ UNCHANGED options_data

NextPrice == RebalanceAtPrice

SpecPrice == InitReduce /\ [][NextPrice]_vars

\* ------------------------------------------------------------------------
\* The chain snapshot on its own: the minute bars from 15:44 to 16:00 of a
\* trading day, each handed by OnData to process_data.
\* ------------------------------------------------------------------------
GREEKS_SNAPSHOT_INTERVAL_MINUTES == 15

\* data_processor.py process_data, the timing gate: the execution times
\* written in the code and the two-bar window of each configured phase.
should_process_chains(t) ==
    LET is_execution_time == t \in {945, 950, 955, 959, 960}
        is_fill_data_time ==
            \E p \in {PHASE_0_TIME, PHASE_1_TIME, PHASE_2_TIME} : t \in {p, p + 1}
    IN is_execution_time \/ is_fill_data_time

\* update_chain, the symbols it builds the snapshot for: option entries
\* with a quantity or a target_contracts value.
ActiveOptionSymbols(pos) ==
    {pos[i].symbol : i \in {j \in DOMAIN pos :
                               /\ IsOption(pos[j].symbol)
                               /\ pos[j].quantity # 0 \/ pos[j].target_contracts # 0}}

\* update_chain is throttled at this bar: it is not 15:59 or 16:00 and the
\* last snapshot is younger than the interval.
Throttled(od, now, t) ==
    /\ t \notin {959, 960}
    /\ od.last_snapshot_time # None
    /\ now - od.last_snapshot_time[1] < GREEKS_SNAPSHOT_INTERVAL_MINUTES

\* update_chain, the snapshot part; chain is the set of contracts the chain
\* quotes with a delta.
update_chain_snapshot(od, pos, chain, now, t) ==
    IF Throttled(od, now, t) THEN od
    ELSE IF ActiveOptionSymbols(pos) = {} THEN [od EXCEPT !.chain_greeks_snapshot = {}]
    ELSE [chain_greeks_snapshot |-> ActiveOptionSymbols(pos) \cap chain,
          last_snapshot_time |-> Some(now)]

\* seed_active_positions: every active contract the security or the
\* snapshot has Greeks for is written to the cache with the time of the bar.
seed_active_positions(cache, od, pos, sec, now) ==
    LET seeded == ActiveOptionSymbols(pos) \cap (sec \cup od.chain_greeks_snapshot)
    IN update_chain(cache, SelectSeq(SymbolOrder, LAMBDA sym : sym \in seeded), now)

\* Ledgers of the day: nothing, or one filled short put.
SnapshotLedgers == {<<>>, <<ExitEntry(1, -5)>>}

InitSnapshot ==
    /\ day = 5
    /\ minute = PHASE_0_TIME - 1
    /\ fired = FALSE
    /\ IsWarmingUp = FALSE
    /\ warmAtOpen = FALSE
    /\ positions \in SnapshotLedgers
    /\ openOrders = {}
    /\ nextOrderId = 1
    /\ holdings = [sym \in Symbols |->
                      SumSeq([k \in DOMAIN positions |->
                                 IF positions[k].symbol = sym
                                 THEN positions[k].quantity ELSE 0], 1)]
    /\ todays_new_trades = <<>>
    /\ cfg = ShippedConfig
    /\ phaseLog = <<>>
    /\ cbPhases = <<>>
    /\ cb = NoCallback
    /\ lastFill = NoFill
    /\ risk_monitor = NewRiskMonitor
    /\ afterPhase2 = FALSE
    /\ resolved = NoQuery
    /\ greeks_cache = <<>>
    /\ probe = <<>>
    /\ options_data \in {NewOptionsData,
                          [NewOptionsData EXCEPT
                              !.last_snapshot_time = Some(4 * 1440 + 960)]}

\* A minute bar arrives; the bar carries the option chain or not, the chain
\* and the securities quote Greeks for some of the contracts.
SnapshotBar ==
    /\ ~fired
    /\ IsTradingDay(day)
    /\ fired' = TRUE
    /\ lastFill' = NoFill
    /\ \E delivered \in BOOLEAN, chain \in SUBSET {"o1"}, sec \in SUBSET {"o1"} :
         LET processed == should_process_chains(minute) /\ delivered
             od == update_chain_snapshot(options_data, positions, chain, Now, minute)
             refreshed == /\ ~Throttled(options_data, Now, minute)
                          /\ ActiveOptionSymbols(positions) # {}
             cache1 == IF refreshed
                       THEN update_chain(greeks_cache,
                                         SelectSeq(SymbolOrder,
                                                   LAMBDA sym : sym \in od.chain_greeks_snapshot),
                                         Now)
                       ELSE greeks_cache
             log == (IF processed THEN <<Ev("chain")>> ELSE <<>>)
                       \o (IF processed /\ refreshed THEN <<Ev("snapshot")>> ELSE <<>>)
         IN /\ options_data' = IF processed THEN od ELSE options_data
            /\ greeks_cache' = IF processed
                               THEN seed_active_positions(cache1, od, positions, sec, Now)
                               ELSE greeks_cache
            /\ cb' = Report("OnData", log, NoInput, positions)
    /\ UNCHANGED <<day, minute, IsWarmingUp, warmAtOpen, positions, openOrders,
                   nextOrderId, holdings, todays_new_trades, cfg, phaseLog, cbPhases,
                   risk_monitor, afterPhase2, resolved, probe>>

\* The next minute bar of the day.
SnapshotClock ==
    /\ fired
    /\ minute < 960
    /\ minute' = minute + 1
    /\ fired' = FALSE
    /\ UNCHANGED <<day, IsWarmingUp, warmAtOpen, positions, openOrders, nextOrderId,
                   holdings, todays_new_trades, cfg, phaseLog, cbPhases, cb, lastFill,
                   risk_monitor, afterPhase2, resolved, greeks_cache, probe,
                   options_data>>

NextSnapshot ==
    \/ SnapshotBar
    \/ SnapshotClock

SpecSnapshot == InitSnapshot /\ [][NextSnapshot]_vars

\* ------------------------------------------------------------------------
\* compute_delta_groups on its own: the hedger asks for the exposure groups
\* up to MaxGroupCalls times while nothing else runs.
\* ------------------------------------------------------------------------
MaxGroupCalls == 2

\* What compute_delta_groups can reach through self.algorithm: the ledger,
\* the open orders, today's new trades, the Greeks cache and the holdings.
ProgramState ==
    [pos |-> positions, ord |-> openOrders, trades |-> todays_new_trades,
     cache |-> greeks_cache, hold |-> holdings]

\* A variant that drops the pending trades once they are counted.
ComputeDeltaGroupsCall_consumes_pending(st, m) ==
    [st |-> [st EXCEPT !.trades = <<>>],
     groups |-> compute_delta_groups(st.pos, st.hold, PendingList(st.trades), m)]

\* One call of compute_delta_groups: the program state it leaves and the
\* groups it returns.  Every assignment of the function is to a local.
ComputeDeltaGroupsCall(st, m) ==
    [st |-> st,
     groups |-> compute_delta_groups(st.pos, st.hold, PendingList(st.trades), m)]

\* Ledgers at 15:55: nothing, a short option, a short option and a
\* placeholder; each with or without an underlying hedge entry.
GroupLedgers ==
    {opt \o hed :
        opt \in {<<>>, <<ExitEntry(1, -5)>>, <<ExitEntry(1, -5), ExitEntry(2, 0)>>},
        hed \in {<<>>, <<HedgeEntry(underlying_symbol, "", -100,
                                    5 * 1440 + PHASE_2_TIME)>>}}

InitGroups ==
    /\ day = 8
    /\ minute = PHASE_2_TIME
    /\ fired = FALSE
    /\ IsWarmingUp = FALSE
    /\ warmAtOpen = FALSE
    /\ positions \in GroupLedgers
    /\ holdings = [sym \in Symbols |->
                      IF sym = underlying_symbol
                      THEN SumSeq([k \in DOMAIN positions |->
                                      IF positions[k].is_hedge
                                      THEN positions[k].quantity ELSE 0], 1)
                      ELSE SumSeq([k \in DOMAIN positions |->
                                      IF positions[k].symbol = sym
                                      THEN positions[k].quantity ELSE 0], 1)]
    /\ openOrders = {}
    /\ nextOrderId = 1
    /\ todays_new_trades \in {<<>>} \cup {<<c>> : c \in {x \in Candidates : x.quotes}}
    /\ cfg = ShippedConfig
    /\ phaseLog = <<>>
    /\ cbPhases = <<>>
    /\ cb = NoCallback
    /\ lastFill = NoFill
    /\ risk_monitor = NewRiskMonitor
    /\ afterPhase2 = FALSE
    /\ resolved = NoQuery
    /\ greeks_cache \in {<<>>, <<[sym |-> "o1", ts |-> 5 * 1440 + DATA_BAR_TIME]>>}
    /\ probe = <<>>
    /\ options_data = NewOptionsData

\* The hedger calls compute_delta_groups with the quotes of the moment.
DeltaGroupsQuery ==
    /\ Len(probe) < MaxGroupCalls
    /\ \E m \in Phase0Inputs :
         LET r == ComputeDeltaGroupsCall(ProgramState, m) IN
         /\ positions' = r.st.pos
         /\ openOrders' = r.st.ord
         /\ todays_new_trades' = r.st.trades
         /\ greeks_cache' = r.st.cache
         /\ holdings' = r.st.hold
         /\ probe' = Append(probe, [m |-> m, groups |-> r.groups])
    /\ UNCHANGED <<day, minute, fired, IsWarmingUp, warmAtOpen, nextOrderId, cfg,
                   phaseLog, cbPhases, cb, lastFill, risk_monitor, afterPhase2,
                   resolved>>
    /\ UNCHANGED options_data

NextGroups == DeltaGroupsQuery

SpecGroups == InitGroups /\ [][NextGroups]_vars

\* ------------------------------------------------------------------------
\* The Greeks cache on its own: chain bars write to it, the daily cleanup
\* prunes it, the weekly cleanup clears it.  Contracts are numbered.
\* ------------------------------------------------------------------------
MaxCacheContracts == 201

MaxCacheDay == 10

\* The contracts a chain quotes for the active ledger entries, in chain
\* order: all but the newest, the newer half with the newest, or all.
QuotedChains ==
    LET Contracts(a, b) == [k \in 1..(b - a + 1) |-> a + k - 1]
    IN {Contracts(1, MaxCacheContracts - 1),
        Contracts(MaxCacheContracts \div 2 + 1, MaxCacheContracts),
        Contracts(1, MaxCacheContracts)}

InitCache ==
    /\ day = 5
    /\ minute = DATA_BAR_TIME
    /\ fired = FALSE
    /\ IsWarmingUp = FALSE
    /\ warmAtOpen = FALSE
    /\ positions = <<>>
    /\ openOrders = {}
    /\ nextOrderId = 1
    /\ holdings = [sym \in Symbols |-> 0]
    /\ todays_new_trades = <<>>
    /\ cfg = ShippedConfig
    /\ phaseLog = <<>>
    /\ cbPhases = <<>>
    /\ cb = NoCallback
    /\ lastFill = NoFill
    /\ risk_monitor = NewRiskMonitor
    /\ afterPhase2 = FALSE
    /\ resolved = NoQuery
    /\ greeks_cache = <<>>
    /\ probe = <<>>
    /\ options_data = NewOptionsData

\* A bar with an option chain arrives: process_data hands the chain to
\* update_chain.
ChainBar ==
    /\ minute = DATA_BAR_TIME
    /\ IsTradingDay(day)
    /\ fired' = TRUE
    /\ \E quoted \in QuotedChains :
         greeks_cache' = update_chain(greeks_cache, quoted, Now)
    /\ UNCHANGED <<day, minute, IsWarmingUp, warmAtOpen, positions, openOrders,
                   nextOrderId, holdings, todays_new_trades, cfg, phaseLog, cbPhases,
                   cb, lastFill, risk_monitor, afterPhase2, resolved, probe>>
    /\ UNCHANGED options_data

\* Time passes: from the bars of the day to 16:01, and from 16:01, once the
\* cleanup scheduled for the day has run, to the next day.
CacheClock ==
    /\ \/ /\ minute = DATA_BAR_TIME
          /\ day' = day
          /\ minute' = 961
       \/ /\ minute = 961
          /\ fired \/ ~(IsTradingDay(day) \/ IsSunday(day))
          /\ day < MaxCacheDay
          /\ day' = day + 1
          /\ minute' = IF IsTradingDay(day + 1) THEN DATA_BAR_TIME ELSE 961
    /\ fired' = FALSE
    /\ UNCHANGED <<IsWarmingUp, warmAtOpen, positions, openOrders, nextOrderId,
                   holdings, todays_new_trades, cfg, phaseLog, cbPhases, cb, lastFill,
                   risk_monitor, afterPhase2, resolved, greeks_cache, probe>>
    /\ UNCHANGED options_data

NextCache ==
    \/ ChainBar
    \/ CacheClock
    \/ daily_cleanup
    \/ weekly_aggressive_cleanup

SpecCache == InitCache /\ [][NextCache]_vars

\* ------------------------------------------------------------------------
\* The margin estimate on its own: one call for every combination of
\* underlying price, strike and option price, in dollars.
\* ------------------------------------------------------------------------
MarginInputs ==
    [und_px : {0, 10, 100, 300, 500}, strike : {0, 20, 285, 300, 600},
     premium : {0, 3, 50, 200}]

InitMargin ==
    /\ day = 5
    /\ minute = PHASE_1_TIME
    /\ fired = FALSE
    /\ IsWarmingUp = FALSE
    /\ warmAtOpen = FALSE
    /\ positions = <<>>
    /\ openOrders = {}
    /\ nextOrderId = 1
    /\ holdings = [sym \in Symbols |-> 0]
    /\ todays_new_trades = <<>>
    /\ cfg = ShippedConfig
    /\ phaseLog = <<>>
    /\ cbPhases = <<>>
    /\ cb = NoCallback
    /\ lastFill = NoFill
    /\ risk_monitor = NewRiskMonitor
    /\ afterPhase2 = FALSE
    /\ resolved = NoQuery
    /\ greeks_cache = <<>>
    /\ \E a \in MarginInputs : probe = <<a>>
    /\ options_data = NewOptionsData

\* A caller asks for the margin estimate of one contract.
EstimateMargin ==
    /\ Len(probe) = 1
    /\ probe' = Append(probe,
                       [estimate |-> EstimatedMarginPerContract(
                                         probe[1].und_px, probe[1].strike,
                                         probe[1].premium)])
    /\ UNCHANGED <<day, minute, fired, IsWarmingUp, warmAtOpen, positions, openOrders,
                   nextOrderId, holdings, todays_new_trades, cfg, phaseLog, cbPhases,
                   cb, lastFill, risk_monitor, afterPhase2, resolved, greeks_cache>>
    /\ UNCHANGED options_data

NextMargin == EstimateMargin

SpecMargin == InitMargin /\ [][NextMargin]_vars

\* ------------------------------------------------------------------------
\* Properties
\* ------------------------------------------------------------------------
\* The phases a day runs when it is past warm-up at its first phase time.
FullCycle == <<<<0, PHASE_0_TIME>>, <<1, PHASE_1_TIME>>, <<2, PHASE_2_TIME>>>>

\* How many of the phase times the clock has served so far today.
PhaseTimesServed ==
    Cardinality({k \in DOMAIN FullCycle :
                    \/ FullCycle[k][2] < minute
                    \/ FullCycle[k][2] = minute /\ fired})

\* C1: with phase splitting enabled, on every trading day that is past
\* warm-up the phases run in the order 0, 1, 2, each exactly once, at the
\* three strictly increasing configured times, and no scheduler callback
\* runs more than one phase.
C1_PhaseOrder ==
    /\ PHASE_SPLIT_ENABLED
    /\ PHASE_0_TIME < PHASE_1_TIME /\ PHASE_1_TIME < PHASE_2_TIME
    /\ Len(cbPhases) <= 1
    /\ (IsTradingDay(day) /\ ~warmAtOpen)
           => phaseLog = SubSeq(FullCycle, 1, PhaseTimesServed)

\* A trading day past warm-up whose third phase has just run.
C1_Witness ==
    /\ IsTradingDay(day) /\ ~warmAtOpen
    /\ minute = PHASE_2_TIME /\ fired
    /\ cbPhases = <<2>>
    /\ phaseLog = FullCycle

\* The ids of a ledger.
Ids(pos) == {pos[i].id : i \in DOMAIN pos}

\* The entry the delivered fill was applied to, 0 when there was none.
FilledIndex ==
    IF lastFill.ev.Status = "Filled" THEN FirstMatch(lastFill.pre, lastFill.ev) ELSE 0

\* The delivered fill brought the quantity of its entry to exactly zero.
FillZeroes ==
    /\ FilledIndex # 0
    /\ lastFill.pre[FilledIndex].quantity + lastFill.ev.FillQuantity = 0

\* The first daily clean-up that runs more than POSITION_CLEANUP_DAYS after
\* the instant ts.
RECURSIVE FirstTradingDayFrom(_)
FirstTradingDayFrom(d) == IF IsTradingDay(d) THEN d ELSE FirstTradingDayFrom(d + 1)

CleanupInstantFor(ts) ==
    FirstTradingDayFrom((ts \div 1440) + POSITION_CLEANUP_DAYS + 1) * 1440 + 961

LedgerView(pos) == {<<pos[i].id, pos[i].quantity>> : i \in DOMAIN pos}

\* The ledger once the rest of open order o has filled.
AfterFillOf(pos, o) ==
    OnOrderEvent(pos, OrderEvent("Filled", o, o.quantity - o.filled), Now)

\* The fill of o would land on an entry the ledger tracks.
OnTrackedInstrument(pos, o) ==
    FirstMatch(pos, OrderEvent("Filled", o, o.quantity - o.filled)) # 0

\* C3: whichever of two outstanding fills on tracked instruments is
\* delivered first, the ledger reached after both holds the same entries
\* with the same quantities.
C3_DeliveryOrderIndependent ==
    \A a, b \in openOrders :
        (a # b /\ OnTrackedInstrument(positions, a) /\ OnTrackedInstrument(positions, b))
           => LedgerView(AfterFillOf(AfterFillOf(positions, a), b))
                 = LedgerView(AfterFillOf(AfterFillOf(positions, b), a))

\* C4: delivering the fill notification just handled a second time leaves
\* the ledger as the first delivery left it.
C4_FillIdempotent ==
    lastFill.ev.Status = "Filled"
       => OnOrderEvent(positions, lastFill.ev, lastFill.now) = positions

\* No live, snapshot or cached delta exists for the queried option.
NoDeltaAnywhere(src) == src.sec = None /\ src.chain = None /\ src.cache = None

\* C5: for every combination of sources the resolver answers with a value
\* and a label, the value is never zero, and when no live, snapshot or
\* cached delta exists the value is the analytic fallback (-0.25 for a put).
C5_ResolverUsable ==
    resolved.answered =>
       /\ resolved.label # ""
       /\ resolved.value # 0
       /\ NoDeltaAnywhere(resolved.src)
             => resolved.value = (IF resolved.isPut THEN -25 ELSE 25)

\* ------------------------------------------------------------------------
\* Phase 2 as reported by the callback that ran it
\* ------------------------------------------------------------------------
Phase2Ran == cb.name = "ExecuteStrategy" /\ cbPhases = <<2>>

\* The log entries of the latest callback that are of one of the kinds.
LogOf(kinds) == {k \in DOMAIN cb.log : cb.log[k].what \in kinds}

\* What Phase 2 aggregated: the ledger it started from, the holdings and
\* the pending list of today's trades, under the market it read.
P2Group == compute_delta_groups(cb.pos, holdings, PendingList(todays_new_trades), cb.m)

\* Target and tolerance of the configured sizing mode, in thousandths of a
\* dollar: a share of NAV, or a share of the option notional.
BandBase ==
    IF cfg.delta_band_mode = "NAV" THEN cb.m.acct.pv
    ELSE trade_base_notional(cb.pos, PendingList(todays_new_trades), Chain.price)

BandTarget ==
    BandBase * (IF cfg.delta_band_mode = "NAV" THEN cfg.nav_target ELSE cfg.trade_target)

BandTolerance ==
    BandBase * (IF cfg.delta_band_mode = "NAV" THEN cfg.nav_tol ELSE cfg.trade_tol)

\* The exposure lies inside the band widened by the hysteresis fraction.
InsideWidenedBand ==
    LET cur == P2Group.dollar_delta * 1000
        widened == BandTolerance + (BandTolerance * NAV_HYSTERESIS_PCT) \div 100
    IN BandTarget - widened <= cur /\ cur <= BandTarget + widened

\* C6: in every sizing mode, when the exposure of the group lies inside the
\* tolerance band widened by the hysteresis fraction, Phase 2 submits no
\* hedge order and no option-reduction order.
C6_NoTradeInsideWidenedBand ==
    (Phase2Ran /\ P2Group.present /\ InsideWidenedBand)
       => LogOf({"hedge", "reduce", "liquidate"}) = {}

\* The projected margin utilisation Phase 2 computed is above the ceiling.
AboveCeiling(e) == e.used * 100 > overnight_margin_max * e.pv

RECURSIVE DollarSum(_, _, _)
DollarSum(cs, k, kinds) ==
    IF k > Len(cs) THEN 0
    ELSE (IF cs[k].kind \in kinds
          THEN (IF cs[k].kind \in {"hedge", "direct"}
                THEN cs[k].qty * Chain.price
                ELSE cs[k].units * Chain.price)
          ELSE 0) + DollarSum(cs, k + 1, kinds)

\* C8: the dollar delta compute_delta_groups reports is the sum of delta x
\* quantity x multiplier x price over the counted option positions plus
\* quantity x price over the hedge holdings of the underlying, tracked in
\* the ledger or held directly, and it is the option-originated plus the
\* hedge-originated delta.
C8_Additive ==
    Phase2Ran =>
       \A pending \in {<<>>, PendingList(todays_new_trades)} :
          LET g == compute_delta_groups(cb.pos, holdings, pending, cb.m)
              cs == g.contributions
          IN g.present =>
                /\ g.dollar_delta
                      = DollarSum(cs, 1, {"portfolio", "ledger", "pending"})
                           + DollarSum(cs, 1, {"hedge", "direct"})
                /\ g.dollar_delta = g.option_delta + g.hedge_delta

C10_EntryAfterCapacityCheck ==
    \A k \in LogOf({"entry"}) :
        /\ k > 1
        /\ cb.log[k - 1].what = "check"
        /\ cb.log[k - 1].ok
        /\ cb.log[k - 1].used * 100
              < (TARGET_MARGIN_USE - MARGIN_BUFFER) * cb.log[k - 1].pv

\* ------------------------------------------------------------------------
\* C11: once a Phase 2 has run, no step submits an order of any kind until
\* a step in which Phase 0 starts.
C11_QuietAfterPhase2 ==
    [][afterPhase2 /\ nextOrderId' # nextOrderId
         => \E k \in DOMAIN cbPhases' : cbPhases'[k] = 0]_vars

C13_NoExceptionEscapes == \A k \in DOMAIN cb.log : cb.log[k].what # "unhandled"

\* ------------------------------------------------------------------------
\* The ledger can hold an option entry with contracts and without the
\* credit_received key.
NoCreditKey ==
    \E i \in DOMAIN positions :
        /\ ~positions[i].is_hedge
        /\ positions[i].quantity # 0
        /\ ~positions[i].credit_received

\* The option entries of the ledger that Phase 0 can close on its own
\* account: contracts held, every field present, the exit rule fires and
\* the market quotes the instrument.
Closable(rule, cond) ==
    {i \in DOMAIN positions :
        /\ i \in rule
        /\ ~positions[i].is_hedge
        /\ positions[i].quantity # 0
        /\ positions[i].credit_received
        /\ cond[positions[i].symbol] = "ok"}

\* C14: whatever fails for another entry, Phase 0 still processes every
\* entry it can close: it submits one exit order for each of them.
C14_OthersStillProcessed ==
    (~fired /\ minute = PHASE_0_TIME /\ ~IsWarmingUp) =>
        \A m \in Phase0Inputs, rule \in SUBSET DOMAIN positions, cond \in CondMaps :
            LET s == check_exit_conditions(
                         HandlerState(positions, {}, nextOrderId), rule, cond, m)
            IN Cardinality({o \in s.ord : o.tag = "EXIT"})
                   = Cardinality(Closable(rule, cond))

\* The step is a fill that brings entry e to zero.
FillReturnsToZero(e) ==
    /\ lastFill'.ev.Status = "Filled"
    /\ lastFill'.pre = positions
    /\ lastFill'.ev.Symbol = e.symbol
    /\ e.quantity + lastFill'.ev.FillQuantity = 0

\* The step is a Phase 0 in which the close of entry e reaches the retry
\* limit.
RetryLimitReached(e) ==
    /\ \E k \in DOMAIN cbPhases' : cbPhases'[k] = 0
    /\ e.close_retry_count + 1 >= NONTRADABLE_RETRY_LIMIT

\* C15: an entry that holds a quantity leaves the ledger only by the fill
\* that returns it to zero or by reaching the close-retry limit.
C15_LeavesOnlyAtZeroOrRetryLimit ==
    [][\A i \in DOMAIN positions :
           (positions[i].quantity # 0 /\ positions[i].id \notin Ids(positions'))
               => FillReturnsToZero(positions[i]) \/ RetryLimitReached(positions[i])]_vars

P2UnitsToTrade ==
    LET band == P2Band(cfg, cb.pos, PendingList(todays_new_trades), cb.m)
        cur == P2Group.dollar_delta * 1000
        desired == IF cfg.delta_revert_mode = "TARGET" THEN band.tgt
                   ELSE IF cur < band.lo THEN band.lo ELSE band.hi
    IN RoundDiv(desired - cur, Chain.price * 1000)

\* What is still to fill of the open orders for a symbol.
OpenUnfilled(ord, sym) ==
    LET RECURSIVE Sum(_)
        Sum(S) == IF S = {} THEN 0
                  ELSE LET o == CHOOSE x \in S : TRUE
                       IN (o.quantity - o.filled) + Sum(S \ {o})
    IN Sum({o \in ord : o.symbol = sym})

\* C17: after Phase 2 has taken the hedge step, the unfilled quantity of
\* the open hedge orders for the underlying, the newly submitted order
\* included, equals the trade quantity Phase 2 computed, and taking the
\* hedge step again at once submits nothing further.
C17_OpenPlusNewIsComputed ==
    (Phase2Ran /\ LogOf({"hedge_path"}) # {}) =>
       /\ OpenUnfilled(openOrders, underlying_symbol) = P2UnitsToTrade
       /\ execute_underlying_hedge(HandlerState(positions, openOrders, nextOrderId),
                                   P2UnitsToTrade).ord = openOrders

\* The highest-priority source that holds a delta, and the label of its
\* level: live quote, snapshot of the cycle, cache of today, cache of an
\* earlier day, analytic fallback.
HighestPrioritySource(src, isPut) ==
    IF src.sec # None THEN <<src.sec[1], "QC">>
    ELSE IF src.chain # None THEN <<src.chain[1], "QC-CHAIN">>
    ELSE IF src.cache # None /\ src.cacheSameDay THEN <<src.cache[1], "QC-CACHED">>
    ELSE IF src.cache # None THEN <<src.cache[1], "QC-CACHED-STALE">>
    ELSE <<FallbackDelta(isPut), "FALLBACK">>

\* C18: the delta resolver returns the value of the highest-priority
\* source that has one (live quote, snapshot, same-day cache, prior-day
\* cache, analytic fallback), and the label names the level it came from.
C18_PriorityAndLabel ==
    resolved.answered =>
       <<resolved.value, resolved.label>>
          = HighestPrioritySource(resolved.src, resolved.isPut)

\* The daily cleanup is taking its step.
DailyCleanupStep == minute = 961 /\ IsTradingDay(day) /\ ~fired /\ fired'

\* The entries of the cache the step evicts for capacity: young enough to
\* survive the age cutoff, and gone afterwards.
EvictedForCapacity ==
    {i \in DOMAIN greeks_cache :
        /\ ~(greeks_cache[i].ts \div 1440 < day - GREEKS_CACHE_CLEANUP_DAYS)
        /\ \A j \in DOMAIN greeks_cache' : greeks_cache'[j].sym # greeks_cache[i].sym}

\* The step evicts exactly as many entries as are over capacity, and none
\* of them is younger than an entry that stays.
EvictsOldest ==
    /\ Cardinality(EvictedForCapacity)
          = (IF Len(greeks_cache) > GREEKS_CACHE_MAX_ENTRIES
             THEN Len(greeks_cache) - GREEKS_CACHE_MAX_ENTRIES ELSE 0)
    /\ \A i \in EvictedForCapacity :
          \A j \in DOMAIN greeks_cache' : greeks_cache[i].ts <= greeks_cache'[j].ts

C20_MarginAtLeastFloorAndComponents ==
    Len(probe) = 2 =>
       LET a == probe[1]
           e == probe[2].estimate
           otm == IF a.und_px > a.strike THEN a.und_px - a.strike ELSE 0
       IN /\ e >= MARGIN_MINIMUM_FLOOR
          /\ e >= MARGIN_ESTIMATE_1_UNDERLYING_PCT * a.und_px - otm * 100
                     + a.premium * 100
          /\ e >= MARGIN_ESTIMATE_2_UNDERLYING_PCT * a.und_px + a.premium * 100
          /\ e >= ESTIMATED_MARGIN_PCT * a.strike

\* An out-of-the-money put whose estimate lies above the floor.
C20_Witness ==
    /\ Len(probe) = 2
    /\ probe[1].und_px > probe[1].strike
    /\ probe[1].premium > 0
    /\ probe[2].estimate > MARGIN_MINIMUM_FLOOR

\* C21: a failed close counts up the retry counter of the position, and a
\* position whose counter has reached the configured limit is no longer in
\* the ledger: every entry the ledger holds has its non-tradable counter
\* and its quote counter below their limits.
C21_DroppedAtRetryLimit ==
    \A i \in DOMAIN positions :
        /\ positions[i].close_retry_count < NONTRADABLE_RETRY_LIMIT
        /\ positions[i].quote_retry_count < QUOTE_RETRY_LIMIT

\* The cancel sweep scheduled before the close is taking its step.
SweepStep == minute = 959 /\ ~fired /\ fired'

\* C22: the sweep cancels every open order that has been unfilled for a
\* day or more, whatever its kind (entry, exit, hedge, reduction), and
\* cancels no order younger than a day.
C22_SweepCancelsStaleOnly ==
    [][SweepStep =>
          \A o \in openOrders :
              IF Now - o.time >= 1440 THEN o \notin openOrders'
              ELSE o \in openOrders']_vars

\* Ledger entries Phase 2 starts from that Phase 1 of the same day entered
\* and whose entry order has not filled at all.
UnfilledEntries ==
    {i \in DOMAIN cb.pos :
        /\ ~cb.pos[i].is_hedge
        /\ cb.pos[i].quantity = 0
        /\ cb.pos[i].target_contracts # 0
        /\ cb.pos[i].timestamp \div 1440 = day
        /\ \E k \in DOMAIN todays_new_trades :
               todays_new_trades[k].symbol = cb.pos[i].symbol
        /\ \E o \in openOrders :
               o.symbol = cb.pos[i].symbol /\ o.tag = "ENTRY" /\ o.filled = 0}

\* The delta of a pending entry: the live quote, else the delta the
\* candidate was selected with.
PendingEntryDelta(p) ==
    IF cb.m.src.sec # None THEN cb.m.src.sec[1]
    ELSE LET K == {k \in DOMAIN todays_new_trades :
                      todays_new_trades[k].symbol = p.symbol}
         IN todays_new_trades[MinOf(K)].delta

\* Exposure of the underlying in dollars with every unfilled entry counted
\* at delta x signed target quantity (entries are sold) x multiplier x
\* price; deltas are in hundredths, so the multiplier 100 cancels.
ExposureWithEntries ==
    LET filled == compute_delta_groups(cb.pos, holdings, <<>>, cb.m).dollar_delta
        ent == SelectIdx(cb.pos, UnfilledEntries)
        Dollar(p) == PendingEntryDelta(p) * (-p.target_contracts) * Chain.price
    IN filled + SumSeq(Field(ent, Dollar), 1)

\* Option notional with the unfilled entries counted.
NotionalWithEntries ==
    LET filled == compute_delta_groups(cb.pos, holdings, <<>>, cb.m).notional
        ent == SelectIdx(cb.pos, UnfilledEntries)
        Notional(p) == Abs(p.target_contracts) * 100 * Chain.price
    IN filled + SumSeq(Field(ent, Notional), 1)

\* The exposure with the entries counted lies outside the tolerance band.
OutsideBandWithEntries ==
    LET base == IF cfg.delta_band_mode = "NAV" THEN cb.m.acct.pv
                ELSE NotionalWithEntries
        target == base * (IF cfg.delta_band_mode = "NAV" THEN cfg.nav_target
                          ELSE cfg.trade_target)
        tolerance == base * (IF cfg.delta_band_mode = "NAV" THEN cfg.nav_tol
                             ELSE cfg.trade_tol)
        cur == ExposureWithEntries * 1000
    IN cur < target - tolerance \/ cur > target + tolerance

\* C23: in Phase 2 an entry of the same day that has not filled counts
\* with delta x signed target quantity x multiplier x price in the
\* exposure of its underlying: the band check finds the group out of band
\* exactly when the exposure with the entry counted is, and the exposure
\* the hedge sizing aggregates is the exposure with the entry counted.
C23_PendingEntryCounted ==
    (Phase2Ran /\ UnfilledEntries # {}) =>
       /\ (LogOf({"out_of_bounds"}) # {}) <=> OutsideBandWithEntries
       /\ LogOf({"aggregate"}) # {} => P2Group.dollar_delta = ExposureWithEntries

\* The reductions Phase 2 logged, in the order it made them.
Reductions == SelectIdx(cb.log, LogOf({"reducing"}))

\* The ledger entry a logged reduction closes contracts of.
ReducedPosition(e) == cb.pos[IndexOfId(cb.pos, e.pos_id)]

\* The most contracts one pass may close of a position.
ReductionBound(p) ==
    MinOf({(Abs(p.quantity) * p2_option_reduction_max_pct) \div 100, Abs(p.quantity)})

\* The reduction target Phase 2 passed on: the distance of the exposure
\* from the desired exposure, in thousandths of a dollar.
P2ReductionTarget ==
    LET band == P2Band(cfg, cb.pos, PendingList(todays_new_trades), cb.m)
        cur == P2Group.dollar_delta * 1000
        desired == IF cfg.delta_revert_mode = "TARGET" THEN band.tgt
                   ELSE IF cur < band.lo THEN band.lo ELSE band.hi
    IN Abs(desired - cur)

\* Exposure one closed contract takes off, in thousandths of a dollar.
P2DeltaPerContract == Abs(ResolvedDelta(cb.m)) * Chain.price * 1000

\* Exposure taken off by the first n logged reductions.
ReducedBy(n) ==
    LET red == Reductions
        Contracts(e) == Abs(e.qty)
    IN SumSeq(Field(SubSeq(red, 1, n), Contracts), 1) * P2DeltaPerContract

\* The reductions are made in descending score order.
ReductionsInScoreOrder ==
    \A a, b \in DOMAIN Reductions :
        a < b => size_factor(ReducedPosition(Reductions[a]))
                    >= size_factor(ReducedPosition(Reductions[b]))

\* Each reduction stays within the percentage bound and the holding, and
\* trades against the sign of the position.
ReductionsWithinBound ==
    \A a \in DOMAIN Reductions :
        LET e == Reductions[a]
            p == ReducedPosition(e)
        IN /\ e.qty # 0
           /\ Abs(e.qty) <= ReductionBound(p)
           /\ (p.quantity > 0) = (e.qty < 0)

\* No reduction is made once the target is met.
NoReductionPastTarget ==
    \A a \in DOMAIN Reductions : ReducedBy(a - 1) < P2ReductionTarget

\* Every option position has been reduced by its full bound.
EveryBoundExhausted ==
    \A i \in ActiveOptionIdx(cb.pos) :
        \/ ReductionBound(cb.pos[i]) = 0
        \/ \E a \in DOMAIN Reductions :
              /\ Reductions[a].pos_id = cb.pos[i].id
              /\ Abs(Reductions[a].qty) = ReductionBound(cb.pos[i])

\* C24: the option-position reduction takes the positions in descending
\* score order, closes of each at most max-reduction-percentage x
\* |quantity| contracts and never more than it holds, always against the
\* sign of the position, and stops as soon as the reduction target is met
\* or the bound of every position is exhausted.
C24_ReductionOrderBoundAndStop ==
    (Phase2Ran /\ LogOf({"reduce_path"}) # {}) =>
       /\ ReductionsInScoreOrder
       /\ ReductionsWithinBound
       /\ NoReductionPastTarget
       /\ ReducedBy(Len(Reductions)) >= P2ReductionTarget \/ EveryBoundExhausted

\* Orders for the underlying that the latest callback submitted.
UnderlyingOrdersOfCallback ==
    {o \in openOrders : o.symbol = underlying_symbol /\ o.time = Now /\ o.quantity # 0}

\* C25: whenever the option-position reduction submits an order closing
\* contracts of a position while the account holds a hedge leg in the
\* underlying, the same pass submits an order for the underlying of
\* delta x 100 shares per contract closed that unwinds the leg.
C25_ReductionUnwindsHedge ==
    (Phase2Ran /\ holdings[underlying_symbol] # 0) =>
       \A a \in DOMAIN Reductions :
           \E o \in UnderlyingOrdersOfCallback :
               /\ Abs(o.quantity) = Abs(Reductions[a].qty * ResolvedDelta(cb.m))
               /\ Sign(o.quantity) = -Sign(holdings[underlying_symbol])

\* The desired exposure the revert mode names, in thousandths of a dollar:
\* the midpoint of the band, or the edge of the tolerance band
\* [target - tolerance, target + tolerance] that the exposure has crossed.
RevertDesired ==
    LET cur == P2Group.dollar_delta * 1000
    IN IF cfg.delta_revert_mode = "TARGET" THEN BandTarget
       ELSE IF cur < BandTarget - BandTolerance THEN BandTarget - BandTolerance
       ELSE BandTarget + BandTolerance

\* C26: when Phase 2 hedges a group that is outside its band, the order
\* it emits for the underlying is the difference between the desired
\* exposure (midpoint under TARGET, nearest violated edge of the tolerance
\* band under BAND) and the current exposure, divided by the price and
\* rounded to whole units, so that once it fills the exposure is within
\* one unit of the desired value.
C26_HedgeRevertsToDesired ==
    (Phase2Ran /\ LogOf({"hedge_path"}) # {}) =>
       LET cur == P2Group.dollar_delta * 1000
           units == RoundDiv(RevertDesired - cur, Chain.price * 1000)
       IN /\ units # 0 =>
                \E o \in UnderlyingOrdersOfCallback :
                    /\ o.quantity = units
                    /\ Abs(cur + o.quantity * Chain.price * 1000 - RevertDesired)
                          <= Chain.price * 1000
          /\ units = 0 => UnderlyingOrdersOfCallback = {}

\* Option positions that are open (non-zero quantity in the ledger) or
\* pending (an entry order submitted and not yet filled).
OpenOrPendingCount ==
    Cardinality({i \in DOMAIN positions :
                    ~positions[i].is_hedge /\ positions[i].quantity # 0})
      + Cardinality({o \in openOrders : o.tag = "ENTRY" /\ o.filled = 0})

\* C27: Phase 1 never submits an entry that brings the number of option
\* positions that are open or pending above the configured maximum, also
\* when it processes several entry intents in one pass.
C27_NeverAboveMaxPositions == OpenOrPendingCount <= MAX_POSITIONS

\* Phase 1 ran in the latest callback.
Phase1Ran == cb.name = "ExecuteStrategy" /\ cbPhases = <<1>>

\* The TRADE-mode band for equities, the instrument kind of every
\* underlying traded here, is inert.
EquityTradeBandInert == cfg.trade_target = 0 /\ cfg.trade_tol >= 1000

\* C28: Phase 1 submits a per-trade hedge order for a newly entered option
\* only if the TRADE-mode band of its instrument kind is not inert: with
\* an inert band the per-trade hedge step submits no order.
C28_NoPerTradeHedgeWhenInert ==
    (Phase1Ran /\ EquityTradeBandInert) => LogOf({"hedge"}) = {}

\* Per-trade hedge orders the step submits: new orders for the underlying
\* tagged with the option they hedge.
NewPerTradeHedges ==
    {o \in openOrders' :
        /\ o.tag = "HEDGE"
        /\ o.part \in OptionSymbols
        /\ ~\E p \in openOrders : p.id = o.id}

\* C29: a per-trade hedge order is submitted only by the notification of a
\* fill of the option it hedges and for no more than the delta of the
\* filled contracts (at most 100 shares each), so that none exists for an
\* entry that has not filled or was cancelled before filling.
C29_PerTradeHedgeFollowsFill ==
    [][\A o \in NewPerTradeHedges :
           /\ lastFill'.ev.Status \in {"Filled", "PartiallyFilled"}
           /\ lastFill'.ev.Symbol = o.part
           /\ Abs(o.quantity) <= 100 * Abs(lastFill'.ev.FillQuantity)]_vars

\* C30: Phase 0 removes from the ledger every open position whose
\* instrument has no valid market data (it is no longer known to the data
\* provider, or its price is zero or negative).
C30_NoMarketDataForcesRemoval ==
    (~fired /\ minute = PHASE_0_TIME /\ ~IsWarmingUp) =>
        \A m \in Phase0Inputs, rule \in SUBSET DOMAIN positions, cond \in CondMaps :
            LET s == check_exit_conditions(
                         HandlerState(positions, openOrders, nextOrderId), rule, cond, m)
            IN \A i \in DOMAIN positions :
                   (/\ ~positions[i].is_hedge
                    /\ positions[i].quantity # 0
                    /\ cond[positions[i].symbol] \in {"removed", "noprice"})
                      => positions[i].id \notin Ids(s.pos)

\* ------------------------------------------------------------------------
\* C31
\* ------------------------------------------------------------------------
\* The account a phase would work with if it took margin used from the
\* estimated margins of the tracked positions.
EstimatedAccount(pos, acct) ==
    LET used == CurrentMarginUsed(pos, [acct EXCEPT !.readable = FALSE])
    IN [pv |-> acct.pv, used |-> used, remaining |-> acct.pv - used,
        readable |-> TRUE]

\* C31: when the account's margin figures cannot be read, Phase 1 takes
\* margin used as the sum of the estimated margins of the tracked positions
\* and decides the capacity for entries against that estimate, instead of
\* skipping the entries.
C31_UnreadableMarginUsesEstimate ==
    (Phase1Ran /\ ~cb.m.acct.readable) =>
        \E k \in DOMAIN cb.log :
            /\ cb.log[k].what = "check"
            /\ cb.log[k].used = EstimatedAccount(cb.pos, cb.m.acct).used
            /\ cb.log[k].ok = check_margin_capacity(
                                  EstimatedAccount(cb.pos, cb.m.acct))[1]

\* ------------------------------------------------------------------------
\* C32
\* ------------------------------------------------------------------------
\* |quantity| x multiplier x price summed over the option positions an
\* aggregation counted, each recomputed from its quantity.
RECURSIVE OptionNotionalSum(_, _)
OptionNotionalSum(cs, k) ==
    IF k > Len(cs) THEN 0
    ELSE (IF cs[k].kind \in {"portfolio", "ledger"}
          THEN Abs(cs[k].qty) * 100 * Chain.price
          ELSE 0) + OptionNotionalSum(cs, k + 1)

\* C32: the notional of the exposure group is the sum over its option
\* positions of |quantity| x multiplier x price, and no holding of the hedge
\* instrument adds to it, whether a hedge entry of the ledger tracks it or
\* the portfolio holds it directly.
C32_NotionalExcludesHedges ==
    Phase2Ran =>
       LET g == P2Group
           cs == g.contributions
       IN g.present =>
             /\ g.notional = OptionNotionalSum(cs, 1)
             /\ \A k \in DOMAIN cs :
                   cs[k].kind \in {"hedge", "direct"} => cs[k].notional = 0

\* ------------------------------------------------------------------------
\* C33
\* ------------------------------------------------------------------------
\* C33: when the price of the underlying is zero or negative,
\* compute_delta_groups returns no exposure group for it, and Phase 2
\* submits no hedge order and no reduction order for it.
C33_NonPositivePriceSkipped ==
    \A k \in DOMAIN probe :
        UnderlyingPrice(probe[k].m) <= 0 =>
            /\ ~probe[k].groups.present
            /\ openOrders = {}

\* ------------------------------------------------------------------------
\* C34
\* ------------------------------------------------------------------------
\* Entries of the ledger before the delivered fill that the fill changed or
\* removed.
ChangedByFill ==
    {lastFill.pre[i] : i \in {j \in DOMAIN lastFill.pre :
                                 \A k \in DOMAIN positions :
                                     positions[k] # lastFill.pre[j]}}

C35_ConfiguredCeilingAndFlags ==
    Phase2Ran =>
       /\ \A k \in LogOf({"projected"}) :
             cb.log[k].ok
                <=> cb.log[k].used * 100 > OVERNIGHT_MARGIN_MAX * cb.log[k].pv
       /\ \A k \in DOMAIN Reductions :
             Abs(Reductions[k].qty) * 100
                <= Abs(ReducedPosition(Reductions[k]).quantity)
                      * P2_OPTION_REDUCTION_MAX_PCT
       /\ ~P2_OPTION_REDUCTION_ENABLED => LogOf({"reduce"}) = {}

\* ------------------------------------------------------------------------
\* C36
\* ------------------------------------------------------------------------
\* Bars at which the snapshot is to be refreshed: the phase bars, the bar
\* after each phase, 15:59 and 16:00.
RefreshBars ==
    {PHASE_0_TIME, PHASE_0_TIME + 1, PHASE_1_TIME, PHASE_1_TIME + 1,
     PHASE_2_TIME, PHASE_2_TIME + 1, 959, 960}

\* C36: on a trading day with active option positions, every bar at a
\* phase time, one minute after a phase time, at 15:59 or at 16:00 that
\* carries the option chain refreshes the Greeks chain snapshot.
C36_SnapshotRefreshedAtCriticalBars ==
    (/\ cb.name = "OnData"
     /\ fired
     /\ minute \in RefreshBars
     /\ \E i \in DOMAIN positions :
           IsOption(positions[i].symbol) /\ positions[i].quantity # 0
     /\ LogOf({"chain"}) # {})
        => options_data.last_snapshot_time = Some(Now)

\* ------------------------------------------------------------------------
\* C37
\* ------------------------------------------------------------------------
\* Tags of the orders that close option contracts: exit, Phase 2 reduction,
\* intraday risk reduction and emergency exit.
ClosingTags == {"EXIT", "P2_REDUCTION", "MARGIN", "EMERGENCY_EXIT"}

\* Contracts still to be filled of a set of orders.
RECURSIVE UnfilledQty(_)
UnfilledQty(S) ==
    IF S = {} THEN 0
    ELSE LET o == CHOOSE x \in S : TRUE
         IN Abs(o.quantity - o.filled) + UnfilledQty(S \ {o})

\* Contracts of the option the ledger and the portfolio hold.
RemainingQty(sym) ==
    MaxOf({Abs(holdings[sym]),
           SumSeq([k \in DOMAIN positions |->
                      IF positions[k].symbol = sym /\ ~positions[k].is_hedge
                      THEN Abs(positions[k].quantity) ELSE 0], 1)})

\* C37: for every option, the open unfilled closing orders (exit, Phase 2
\* reduction, intraday risk reduction, emergency exit) together ask for no
\* more contracts than the position still holds, so that their fills cannot
\* carry the position through zero.
C37_ClosingOrdersWithinPosition ==
    \A sym \in OptionSymbols :
        UnfilledQty({o \in openOrders : o.symbol = sym /\ o.tag \in ClosingTags})
            <= RemainingQty(sym)

\* ------------------------------------------------------------------------
\* C38
\* ------------------------------------------------------------------------
\* Quantity of the instrument the ledger records, over all of its entries.
LedgerQty(sym) ==
    SumSeq([k \in DOMAIN positions |->
               IF positions[k].symbol = sym THEN positions[k].quantity ELSE 0], 1)

\* C38: whenever no order is in flight, the ledger quantities of every
\* instrument add up to the quantity the portfolio holds of it.
C38_LedgerMatchesPortfolio ==
    openOrders = {} => \A sym \in DOMAIN holdings : LedgerQty(sym) = holdings[sym]

\* ------------------------------------------------------------------------
\* C39
\* ------------------------------------------------------------------------
\* Option entries of a ledger, and entry orders of a set of orders.
OptionEntryCount(pos) == Cardinality({k \in DOMAIN pos : ~pos[k].is_hedge})

EntryOrderCount(ord) == Cardinality({o \in ord : o.tag = "ENTRY"})

\* C39: a call of try_enter_position that returns False submits no order
\* and leaves the ledger as it was, without a zero-quantity placeholder:
\* Phase 1 adds as many option entries and as many entry orders as it has
\* calls that returned a truthy value, and none when every call failed.
C39_FailedEntryLeavesNothing ==
    [][(fired' /\ ~fired) =>
          /\ OptionEntryCount(positions') - OptionEntryCount(positions)
                 = Len(todays_new_trades')
          /\ EntryOrderCount(openOrders') - EntryOrderCount(openOrders)
                 = Len(todays_new_trades')
          /\ (todays_new_trades' = <<>> =>
                 positions' = positions /\ openOrders' = openOrders)]_vars

\* ------------------------------------------------------------------------
\* C40
\* ------------------------------------------------------------------------
\* The underlying orders the Phase 2 callback that has just returned
\* submitted on its hedge path.
Phase2HedgeOrders ==
    IF /\ cb.name = "ExecuteStrategy"
       /\ minute = PHASE_2_TIME
       /\ fired
       /\ \E k \in DOMAIN cb.log : cb.log[k].what = "hedge_path"
    THEN {o \in openOrders : /\ o.symbol = underlying_symbol
                             /\ o.tag = "HEDGE"
                             /\ o.time = Now}
    ELSE {}

\* Margin utilisation, in percent of portfolio value times the portfolio
\* value, projected from the quantity of the order: half the notional of
\* a short order on top of the margin in use.
ProjectedUsedPct(o) ==
    (CurrentMarginUsed(cb.pos, cb.m.acct)
        + (IF o.quantity < 0
           THEN (Abs(o.quantity) * UnderlyingPrice(cb.m) * SHORT_MARGIN_PCT) \div 100
           ELSE 0)) * 100

\* C40: every underlying hedge order Phase 2 submits keeps the margin
\* utilisation projected from the quantity submitted, after the open
\* orders were netted out, at or below the overnight ceiling.
C40_SubmittedHedgeWithinCeiling ==
    \A o \in Phase2HedgeOrders :
        ProjectedUsedPct(o) <= overnight_margin_max * cb.m.acct.pv

====
